---- MODULE Spec2Model ----
(***************************************************************************)
(* A model of the eml-to-text Slack bot: the webhook handlers of           *)
(* netlify/functions/slack-events.js (its toggle, modal/delete, notice and *)
(* blobs-log revisions) and of the other revisions kept in the repository. *)
(*                                                                         *)
(* Every `await` on the key-value store or on the platform is one step of  *)
(* a delivery: invocations of the function run concurrently and share      *)
(* nothing but PREVIEW_STORE and the platform.                             *)
(***************************************************************************)
EXTENDS Integers, Sequences, FiniteSets, TLC

VARIABLES
    variant,        \* which revision of the function is deployed
    files,          \* the platform's file objects: fileId -> file
    sharesVisible,  \* fileId -> whether files.info already shows the shares
    PREVIEW_STORE,  \* the key-value store: key -> value, absent keys not in DOMAIN
    dlv,            \* the deliveries (invocations) so far, in arrival order
    calls,          \* chat.postMessage / chat.update / views.open ... requests made
    auth,           \* the request under authentication and the handler's answer
    ui,             \* the interactive action under way
    txt             \* the text function under evaluation: its input and result

vars == <<variant, files, sharesVisible, PREVIEW_STORE, dlv, calls, auth, ui, txt>>

(***************************************************************************)
(* Bounds of the model.                                                    *)
(***************************************************************************)
MaxDeliveries == 2
MaxClock == 2
\* MAX_PREVIEW_CHARS as configured in the deployments explored (3000 when unset)
MAX_PREVIEW == 5

(***************************************************************************)
(* Program constants.                                                      *)
(***************************************************************************)
TriesModal == 6
TriesP3 == 5

Variants == {"modal", "p3", "notice"}

(***************************************************************************)
(* Text: a JavaScript string is a sequence of one-character strings.       *)
(***************************************************************************)
NL == "\n"
endsWith(s, suffix) ==
    /\ Len(s) >= Len(suffix)
    /\ SubSeq(s, Len(s) - Len(suffix) + 1, Len(s)) = suffix

LowerChar(c) ==
    CASE c = "E" -> "e" [] c = "M" -> "m" [] c = "L" -> "l" [] c = "S" -> "s"
      [] c = "G" -> "g" [] c = "O" -> "o" [] c = "F" -> "f" [] c = "T" -> "t"
      [] c = "A" -> "a" [] c = "J" -> "j" [] c = "P" -> "p"
      [] OTHER -> c

toLowerCase(s) == [k \in 1..Len(s) |-> LowerChar(s[k])]

supported(name) ==
    LET n == toLowerCase(name)
    IN  endsWith(n, <<".", "e", "m", "l">>)
            \/ endsWith(n, <<".", "m", "s", "g">>)
            \/ endsWith(n, <<".", "o", "f", "t">>)

isEmlName(name) == endsWith(toLowerCase(name), <<".", "e", "m", "l">>)

\* The replacements are computed by halves, so that a long text costs an
\* evaluation depth of its logarithm.
\* .replace(/\r\n/g, "\n"): every \r that a \n follows goes; a pair lying across
\* the middle is replaced there
RECURSIVE replaceCRLF(_)
replaceCRLF(t) ==
    IF Len(t) < 2 THEN t
    ELSE LET m == Len(t) \div 2
         IN  IF t[m] = "\r" /\ t[m + 1] = NL
             THEN replaceCRLF(SubSeq(t, 1, m - 1)) \o <<NL>>
                      \o replaceCRLF(SubSeq(t, m + 2, Len(t)))
             ELSE replaceCRLF(SubSeq(t, 1, m)) \o replaceCRLF(SubSeq(t, m + 1, Len(t)))

\* .replace(/\t/g, "  ")
RECURSIVE replaceTabs(_)
replaceTabs(t) ==
    IF t = <<>> THEN t
    ELSE IF Len(t) = 1 THEN (IF t[1] = "\t" THEN <<" ", " ">> ELSE t)
    ELSE LET m == Len(t) \div 2
         IN  replaceTabs(SubSeq(t, 1, m)) \o replaceTabs(SubSeq(t, m + 1, Len(t)))

isWhite(c) == c \in {" ", "\t", "\r", NL}
\* .trim(): from the first to the last character that is not white space
nonWhite(t) == {k \in 1..Len(t) : ~isWhite(t[k])}
trimStart(t) ==
    IF nonWhite(t) = {} THEN <<>>
    ELSE SubSeq(t, CHOOSE k \in nonWhite(t) : \A j \in nonWhite(t) : k <= j, Len(t))
trimEnd(t) ==
    IF nonWhite(t) = {} THEN <<>>
    ELSE SubSeq(t, 1, CHOOSE k \in nonWhite(t) : \A j \in nonWhite(t) : k >= j)
trim(t) == trimEnd(trimStart(t))

\* the cleaning of normalize, before its length test
clean(t) == trim(replaceTabs(replaceCRLF(t)))
Truncated == <<NL, "...(truncated)">>
\* a length test that cuts a text of exactly MAX_PREVIEW characters
normalize_lt(t) ==
    LET s == clean(t)
    IN  IF Len(s) < MAX_PREVIEW THEN s ELSE SubSeq(s, 1, MAX_PREVIEW) \o Truncated

\* normalize(t): s.length <= MAX_PREVIEW ? s : s.slice(0, MAX_PREVIEW) + marker
normalize(t) ==
    LET s == clean(t)
    IN  IF Len(s) <= MAX_PREVIEW THEN s ELSE SubSeq(s, 1, MAX_PREVIEW) \o Truncated

(***************************************************************************)
(* The key-value store (@netlify/blobs getStore): get / set / delete.      *)
(***************************************************************************)
Has(s, k) == k \in DOMAIN s
\* a delete that takes every key of the same file with it
Delete_file(s, k) == [x \in {y \in DOMAIN s : y[Len(y)] # k[Len(k)]} |-> s[x]]
Put(s, k, v) == [x \in (DOMAIN s) \cup {k} |-> IF x = k THEN v ELSE s[x]]
Delete(s, k) == [x \in (DOMAIN s) \ {k} |-> s[x]]
\* `if (await PREVIEW_STORE.get(k))`: present and not the empty string
Truthy(s, k) == Has(s, k) /\ s[k] # ""

lockKey(f) == <<"lock", f>>
doneKey(f) == <<"done", f>>
processingKey(f) == <<"processing", f>>
contentKey(t, f) == <<"p", t, f>>

StoreResults == {"ok", "throw"}
PostResults == {"ok", "error", "throw"}

(***************************************************************************)
(* files.info: the file object and its shares.                             *)
(***************************************************************************)
NoScope == [present |-> FALSE, entries |-> <<>>]
Scope(entries) == [present |-> TRUE, entries |-> entries]
Post(thread_ts, ts) == [thread_ts |-> thread_ts, ts |-> ts]
NoShares == [private |-> NoScope, public |-> NoScope]

SharesPublic == [private |-> NoScope,
                 public |-> Scope(<<[cid |-> "C1", posts |-> <<Post("", "t1")>>]>>)]
SharesPrivateThread == [private |-> Scope(<<[cid |-> "C2", posts |-> <<Post("t2", "t1")>>]>>),
                        public |-> NoScope]
SharesBoth == [private |-> Scope(<<[cid |-> "C2", posts |-> <<>>],
                                   [cid |-> "C2", posts |-> <<Post("", "t2")>>]>>),
               public |-> Scope(<<[cid |-> "C1", posts |-> <<Post("", "t1")>>]>>)]
SharesEmptyScope == [private |-> NoScope, public |-> Scope(<<>>)]

File(name, url, parse, text, shares, channels, size) ==
    [name |-> name, url |-> url, parse |-> parse, text |-> text, shares |-> shares,
     channels |-> channels, user |-> "U1", size |-> size]

\* the byte ceiling of the revisions that have one: 4 * 1024 * 1024
MAX_FILE_BYTES == 4194304

\* texts the parsers extract: one longer than the preview limit, one to clean
LongBody == <<"a", "b", "c", "d", "e", "f", "g", "h">>
DirtyBody == <<" ", "x", "\r", NL, "\t", "y", NL>>
\* the texts handleFileById makes itself: the fallback banner, the meeting sentinel
FallbackBody == <<"# fallback">>
SkipMeeting == <<"__SKIP_MEETING_MSG__">>

NameEml == <<"a", ".", "e", "m", "l">>
NameMsgUpper == <<"b", ".", "M", "S", "G">>
NameOft == <<"c", ".", "o", "f", "t">>
NameJpg == <<"d", ".", "j", "p", "g">>

\* What files.info answers while the shares are not attached yet.
Unshared(f) == [f EXCEPT !.shares = NoShares, !.channels = <<>>]

hasShareInfo(f) ==
    f.shares.private.present \/ f.shares.public.present \/ Len(f.channels) > 0

\* the first entry of a scope that has a post, 0 if none
RECURSIVE firstWithPosts(_, _)
firstWithPosts(entries, k) ==
    IF k > Len(entries) THEN 0
    ELSE IF Len(entries[k].posts) > 0 THEN k
    ELSE firstWithPosts(entries, k + 1)

placeInScope(scope) ==
    LET k == IF scope.present THEN firstWithPosts(scope.entries, 1) ELSE 0
    IN  IF k = 0 THEN [found |-> FALSE, channel |-> "", thread_ts |-> ""]
        ELSE LET p == scope.entries[k].posts[1]
             IN  [found |-> TRUE, channel |-> scope.entries[k].cid,
                  thread_ts |-> IF p.thread_ts # "" THEN p.thread_ts ELSE p.ts]

\* a scan that looks at the public scope before the private one
placeFromShares_publicFirst(file) ==
    LET a == placeInScope(file.shares.public)
        b == placeInScope(file.shares.private)
    IN  IF a.found THEN [channel |-> a.channel, thread_ts |-> a.thread_ts]
        ELSE IF b.found THEN [channel |-> b.channel, thread_ts |-> b.thread_ts]
        ELSE IF Len(file.channels) > 0
             THEN [channel |-> file.channels[1], thread_ts |-> ""]
        ELSE [channel |-> "", thread_ts |-> ""]

placeFromShares(file) ==
    LET a == placeInScope(file.shares.private)
        b == placeInScope(file.shares.public)
    IN  IF a.found THEN [channel |-> a.channel, thread_ts |-> a.thread_ts]
        ELSE IF b.found THEN [channel |-> b.channel, thread_ts |-> b.thread_ts]
        ELSE IF Len(file.channels) > 0
             THEN [channel |-> file.channels[1], thread_ts |-> ""]
        ELSE [channel |-> "", thread_ts |-> ""]

(***************************************************************************)
(* The platform: the files users share and the events it delivers.         *)
(***************************************************************************)
FileIds == {"F1"}

FileSamples ==
    { File(NameEml, TRUE, "ok", LongBody, SharesPublic, <<"C1">>, MAX_FILE_BYTES + 1),
      File(NameMsgUpper, TRUE, "throws", <<>>, SharesPrivateThread, <<>>, 2048),
      File(NameMsgUpper, TRUE, "meeting", <<>>, SharesBoth, <<>>, 2048),
      File(NameJpg, TRUE, "ok", LongBody, SharesPublic, <<"C1">>, 2048),
      File(NameEml, FALSE, "ok", LongBody, SharesPublic, <<>>, 2048),
      File(NameEml, TRUE, "throws", <<>>, NoShares, <<"C1">>, 2048),
      File(NameOft, TRUE, "ok", DirtyBody, SharesEmptyScope, <<>>, MAX_FILE_BYTES) }

Event(type, subtype, fileList, file_id, channel, channel_id, ts, event_ts, diag) ==
    [type |-> type, subtype |-> subtype, files |-> fileList, file_id |-> file_id,
     channel |-> channel, channel_id |-> channel_id, ts |-> ts,
     event_ts |-> event_ts, diag |-> diag, user_id |-> "U1"]

\* the events of an event_callback the platform sends about file f
Events ==
    UNION { { Event("message", "file_share", <<f>>, "", "C1", "", "m1", "m1", FALSE),
              Event("message", "file_share", <<>>, "", "C1", "", "m1", "m1", FALSE),
              Event("file_shared", "", <<>>, f, "", "C1", "", "e1", FALSE),
              Event("file_shared", "", <<>>, f, "", "", "", "e1", FALSE) }
            : f \in FileIds }
    \cup { Event("message", "", <<>>, "", "C1", "", "m2", "m2", FALSE),
           Event("app_mention", "", <<>>, "", "C1", "", "m3", "m3", TRUE),
           Event("reaction_added", "", <<>>, "", "", "", "", "e3", FALSE) }

Tries == IF variant = "modal" THEN TriesModal ELSE TriesP3

(***************************************************************************)
(* A delivery: one invocation of handler, from routing to its response.    *)
(***************************************************************************)
Idle(ev) ==
    [ev |-> ev, pc |-> "end", resp |-> "200", exc |-> FALSE,
     fileId |-> "", channelHint |-> "", threadHint |-> "", strictThread |-> FALSE,
     i |-> 0, last |-> "null", vis |-> FALSE, nq |-> 0, loopExit |-> "",
     resolved |-> FALSE, channel |-> "", thread_ts |-> "", parsed |-> <<>>, key |-> <<>>,
     atLock |-> FALSE, wroteLock |-> FALSE, queried |-> FALSE, downloaded |-> FALSE,
     posted |-> FALSE, success |-> FALSE, after |-> {}, fin |-> {},
     wroteDone |-> FALSE, dead |-> FALSE, buf |-> FALSE]

\* handleFileById({ fileId, channelHint, threadHint, strictThread }) is entered
enterHandleFileById(ev, fileId, channelHint, threadHint, strictThread) ==
    IF fileId = "" THEN Idle(ev)
    ELSE [Idle(ev) EXCEPT !.pc = "lockRead", !.resp = "pending",
                          !.fileId = fileId, !.channelHint = channelHint,
                          !.threadHint = threadHint, !.strictThread = strictThread]

first(fileList) == IF Len(fileList) > 0 THEN fileList[1] ELSE ""

\* the dispatch of an event_callback in the modal/delete revision
routeModal(ev) ==
    IF ev.type = "app_mention" /\ ev.diag
    THEN [Idle(ev) EXCEPT !.pc = IF ev.channel # "" THEN "diag" ELSE "end",
                          !.resp = IF ev.channel # "" THEN "pending" ELSE "200"]
    ELSE IF ev.type = "message" THEN Idle(ev)
    ELSE IF ev.type = "file_shared"
    THEN enterHandleFileById(ev, ev.file_id, ev.channel_id, "", TRUE)
    ELSE Idle(ev)

\* the dispatch of an event_callback in the modal revision without delete
routeP3(ev) ==
    IF ev.type = "app_mention" /\ ev.diag
    THEN [Idle(ev) EXCEPT !.pc = IF ev.channel # "" THEN "diag" ELSE "end",
                          !.resp = IF ev.channel # "" THEN "pending" ELSE "200"]
    ELSE IF ev.type = "message" /\ Len(ev.files) > 0
    THEN enterHandleFileById(ev, first(ev.files), ev.channel, ev.ts, FALSE)
    ELSE IF ev.type = "message" /\ ev.subtype = "file_share"
    THEN enterHandleFileById(ev, first(ev.files), ev.channel, ev.ts, FALSE)
    ELSE IF ev.type = "file_shared"
    THEN enterHandleFileById(ev, ev.file_id, ev.channel_id, ev.event_ts, FALSE)
    ELSE Idle(ev)

Ds == 1..Len(dlv)
Upd(d, r) == dlv' = [dlv EXCEPT ![d] = r]
\* handleFileById has returned or thrown: the handler answers
ended(r) ==
    [r EXCEPT !.pc = "end", !.resp = IF r.exc THEN "exception" ELSE "200",
              !.i = 0, !.last = "null", !.vis = FALSE, !.nq = 0, !.loopExit = "",
              !.resolved = FALSE, !.channel = "", !.thread_ts = "", !.parsed = <<>>,
              !.key = <<>>, !.buf = FALSE]
\* leaving the try block: the finally block is next
toFinally(r) ==
    [r EXCEPT !.pc = IF variant = "modal" THEN "finallyProcessing" ELSE "finallyLock"]
\* an exception that leaves handleFileById at once
thrown_escapes(r) == ended([r EXCEPT !.exc = TRUE])

thrown(r) == toFinally([r EXCEPT !.exc = TRUE])
\* the file object files.info answered: name, url and content do not change
fileOf(r) == files[r.fileId]
\* the caller has taken the result of filesInfoWithShares: its frame is gone
consumed(r) == [r EXCEPT !.nq = 0, !.loopExit = ""]

\* catch (e) around handleFileShared in the notice revision: the failure notice
\* goes to the event's own channel and timestamp, when it has both
caught(r) ==
    LET sharesCh == IF r.ev.channel_id # "" THEN r.ev.channel_id ELSE r.ev.channel
        sharesTs == IF r.ev.ts # "" THEN r.ev.ts ELSE r.ev.event_ts
    IN  IF sharesCh # "" /\ sharesTs # ""
        THEN [r EXCEPT !.pc = "postFailure", !.channel = sharesCh, !.thread_ts = sharesTs]
        ELSE ended(r)

\* handleFileShared(ev) of the notice revision is entered
enterHandleFileShared(ev) ==
    LET fileId == IF ev.file_id # "" THEN ev.file_id ELSE first(ev.files)
        r == [Idle(ev) EXCEPT !.resp = "pending"]
    IN  IF fileId = "" THEN caught(r)
        ELSE [r EXCEPT !.pc = "info", !.fileId = fileId]

\* the dispatch of an event_callback in the notice revision
routeNotice(ev) ==
    IF ev.type = "app_mention" /\ ev.diag
    THEN [Idle(ev) EXCEPT !.pc = IF ev.channel # "" THEN "diag" ELSE "end",
                          !.resp = IF ev.channel # "" THEN "pending" ELSE "200"]
    ELSE IF ev.type = "file_shared" \/ ev.subtype = "file_share"
    THEN enterHandleFileShared(ev)
    ELSE Idle(ev)

route(ev) ==
    CASE variant = "modal" -> routeModal(ev)
      [] variant = "p3" -> routeP3(ev)
      [] OTHER -> routeNotice(ev)

\* an authenticated event_callback arrives and is routed
handler(ev) ==
    /\ Len(dlv) < MaxDeliveries
    /\ dlv' = Append(dlv, route(ev))
    /\ UNCHANGED <<variant, files, sharesVisible, PREVIEW_STORE, calls, auth, ui, txt>>

\* the platform attaches the share records to the file object
AttachShares(f) ==
    /\ ~sharesVisible[f]
    /\ sharesVisible' = [sharesVisible EXCEPT ![f] = TRUE]
    /\ UNCHANGED <<variant, files, PREVIEW_STORE, dlv, calls, auth, ui, txt>>

\* the diag reply to an app_mention
Diag(d) ==
    /\ dlv[d].pc = "diag"
    /\ \E res \in PostResults :
        /\ calls' = calls \cup {[d |-> d, api |-> "chat.postMessage", kind |-> "diag",
                                 channel |-> dlv[d].ev.channel,
                                 thread_ts |-> dlv[d].ev.ts, result |-> res]}
        /\ Upd(d, ended([dlv[d] EXCEPT !.exc = (res = "throw")]))
    /\ UNCHANGED <<variant, files, sharesVisible, PREVIEW_STORE, auth, ui, txt>>

\* the deliveries that have written lock:{fileId} so far
lockWriters(f) == {e \in Ds : dlv[e].fileId = f /\ dlv[e].wroteLock}

\* a lock check that only honours a finished attempt
lockCheck_doneOnly(r) ==
    IF Has(PREVIEW_STORE, lockKey(r.fileId)) /\ PREVIEW_STORE[lockKey(r.fileId)] = "done"
    THEN ended([r EXCEPT !.atLock = TRUE])
    ELSE [r EXCEPT !.pc = "lockWrite"]

\* if (await PREVIEW_STORE.get(lock)) return;
lockCheck(r) ==
    IF Truthy(PREVIEW_STORE, lockKey(r.fileId)) THEN ended([r EXCEPT !.atLock = TRUE])
    ELSE [r EXCEPT !.pc = "lockWrite"]

LockRead(d) ==
    /\ dlv[d].pc = "lockRead"
    /\ \E st \in StoreResults :
        LET r == [dlv[d] EXCEPT !.after = lockWriters(dlv[d].fileId)]
        IN  Upd(d, IF st = "throw" THEN ended([r EXCEPT !.exc = TRUE]) ELSE lockCheck(r))
    /\ UNCHANGED <<variant, files, sharesVisible, PREVIEW_STORE, calls, auth, ui, txt>>

\* await PREVIEW_STORE.set(lock, String(Date.now()));
LockWrite(d) ==
    /\ dlv[d].pc = "lockWrite"
    /\ \E st \in StoreResults :
        IF st = "throw"
        THEN /\ Upd(d, ended([dlv[d] EXCEPT !.exc = TRUE]))
             /\ UNCHANGED PREVIEW_STORE
        ELSE /\ PREVIEW_STORE' = Put(PREVIEW_STORE, lockKey(dlv[d].fileId), "ts")
             /\ Upd(d, [dlv[d] EXCEPT !.pc = "doneRead", !.wroteLock = TRUE])
    /\ UNCHANGED <<variant, files, sharesVisible, calls, auth, ui, txt>>

\* if (await PREVIEW_STORE.get(`done:${fileId}`)) return;
DoneRead(d) ==
    /\ dlv[d].pc = "doneRead"
    /\ \E st \in StoreResults :
        Upd(d, IF st = "throw" THEN thrown(dlv[d])
               ELSE IF Truthy(PREVIEW_STORE, doneKey(dlv[d].fileId))
               THEN toFinally(dlv[d])
               ELSE [dlv[d] EXCEPT !.pc = IF variant = "modal" THEN "processingRead"
                                          ELSE "query"])
    /\ UNCHANGED <<variant, files, sharesVisible, PREVIEW_STORE, calls, auth, ui, txt>>

\* if (await PREVIEW_STORE.get(`processing:${fileId}`)) return;
ProcessingRead(d) ==
    /\ dlv[d].pc = "processingRead"
    /\ \E st \in StoreResults :
        Upd(d, IF st = "throw" THEN thrown(dlv[d])
               ELSE IF Truthy(PREVIEW_STORE, processingKey(dlv[d].fileId))
               THEN toFinally(dlv[d])
               ELSE [dlv[d] EXCEPT !.pc = "query"])
    /\ UNCHANGED <<variant, files, sharesVisible, PREVIEW_STORE, calls, auth, ui, txt>>

\* a loop test that is off by one
loopContinues_le(i, tries) == i <= tries

\* for (let i = 0; i < tries; i++)
loopContinues(i, tries) == i < tries

\* a resolution that asks the share records first and the hints after
afterInfo_sharesFirst(r0, f) ==
    LET r == [r0 EXCEPT !.pc = "afterInfo"]
        pl == placeFromShares(f)
        ch == IF pl.channel # "" THEN pl.channel ELSE r.channelHint
        th == IF pl.thread_ts # "" THEN pl.thread_ts ELSE r.threadHint
        res == [r EXCEPT !.resolved = TRUE, !.channel = ch, !.thread_ts = th]
    IN  IF ~supported(f.name) THEN [r EXCEPT !.pc = "setDone"]
        ELSE IF r.strictThread /\ (ch = "" \/ th = "") THEN toFinally(res)
        ELSE IF ch = "" THEN [res EXCEPT !.pc = "setDone"]
        ELSE IF variant = "modal" THEN [res EXCEPT !.pc = "setProcessing"]
        ELSE IF ~f.url THEN [res EXCEPT !.pc = "setDone"]
        ELSE [res EXCEPT !.pc = "download"]

\* lines 672-693 of handleFileById (130-140 in the revision without delete): from
\* the file object f that filesInfoWithShares returned to the next request
afterInfo(r0, f) ==
    LET r == [r0 EXCEPT !.pc = "afterInfo"]
        pl == placeFromShares(f)
        missing == r.channelHint = "" \/ r.threadHint = ""
        ch == IF r.channelHint # "" THEN r.channelHint
              ELSE IF missing THEN pl.channel ELSE ""
        th == IF r.threadHint # "" THEN r.threadHint
              ELSE IF missing THEN pl.thread_ts ELSE ""
        res == [r EXCEPT !.resolved = TRUE, !.channel = ch, !.thread_ts = th]
    IN  IF ~supported(f.name) THEN [r EXCEPT !.pc = "setDone"]
        ELSE IF r.strictThread /\ (ch = "" \/ th = "") THEN toFinally(res)
        ELSE IF ch = "" THEN [res EXCEPT !.pc = "setDone"]
        ELSE IF variant = "modal" THEN [res EXCEPT !.pc = "setProcessing"]
        ELSE IF ~f.url THEN [res EXCEPT !.pc = "setDone"]
        ELSE [res EXCEPT !.pc = "download"]

\* one pass of the loop of filesInfoWithShares: const info = await filesInfo(fileId);
\* last = info; the return inside the loop, or i++ and the loop's test, and after the
\* loop the throw or return last.file. nq counts the requests of this call; the
\* function's i and last end with it.
filesInfoWithShares(r, res, visible) ==
    LET f == IF visible THEN files[r.fileId] ELSE Unshared(files[r.fileId])
        q == [r EXCEPT !.queried = TRUE, !.nq = @ + 1,
                       !.last = IF res = "ok" THEN "ok" ELSE "err",
                       !.vis = IF res = "ok" THEN visible ELSE FALSE]
        next == [q EXCEPT !.i = @ + 1]
        out(x, how) == [x EXCEPT !.i = 0, !.last = "null", !.vis = FALSE,
                                 !.loopExit = how]
    IN  IF res = "throw" THEN thrown(out(q, "threw"))
        ELSE IF res = "ok" /\ hasShareInfo(f) THEN afterInfo(out(q, "share"), f)
        ELSE IF loopContinues(next.i, Tries) THEN next
        ELSE IF next.last # "ok" THEN thrown(out(next, "failed"))
        ELSE afterInfo(out(next, "exhausted"), f)

Query(d) ==
    /\ dlv[d].pc = "query"
    /\ \E res \in {"ok", "err", "throw"} :
        Upd(d, filesInfoWithShares(dlv[d], res, sharesVisible[dlv[d].fileId]))
    /\ UNCHANGED <<variant, files, sharesVisible, PREVIEW_STORE, calls, auth, ui, txt>>

\* await PREVIEW_STORE.set(`processing:${fileId}`, "1"); then the url check
SetProcessing(d) ==
    /\ dlv[d].pc = "setProcessing"
    /\ \E st \in StoreResults :
        LET r == consumed(dlv[d])
        IN  IF st = "throw"
            THEN /\ Upd(d, thrown(r))
                 /\ UNCHANGED PREVIEW_STORE
            ELSE /\ PREVIEW_STORE' = Put(PREVIEW_STORE, processingKey(r.fileId), "1")
                 /\ Upd(d, [r EXCEPT !.pc = IF fileOf(r).url THEN "download"
                                           ELSE "setDone"])
    /\ UNCHANGED <<variant, files, sharesVisible, calls, auth, ui, txt>>

\* a catch that rethrows whatever the file's name
afterDownload_rethrow(r) ==
    LET f == fileOf(r)
    IN  IF f.parse = "throws" THEN thrown(r)
        ELSE IF f.parse = "meeting" /\ variant = "modal" /\ ~isEmlName(f.name)
        THEN [r EXCEPT !.pc = "postNotice", !.parsed = SkipMeeting]
        ELSE [r EXCEPT !.pc = "setContent", !.parsed = f.text]

\* a caller that does not know the sentinel and takes it for the text
afterDownload_asText(r) ==
    LET f == fileOf(r)
    IN  IF f.parse = "throws"
        THEN IF variant = "modal" /\ ~isEmlName(f.name)
             THEN [r EXCEPT !.pc = "setContent", !.parsed = FallbackBody]
             ELSE thrown(r)
        ELSE IF f.parse = "meeting" /\ variant = "modal" /\ ~isEmlName(f.name)
        THEN [r EXCEPT !.pc = "setContent", !.parsed = SkipMeeting]
        ELSE [r EXCEPT !.pc = "setContent", !.parsed = f.text]

\* const buf = await dl(url) has returned (r.buf); then parseEML / parseMSGorOFT
\* and, for a .msg or .oft whose parse threw, the fallback text
afterDownload(r) ==
    LET f == fileOf(r)
        eml == isEmlName(f.name)
    IN  IF f.parse = "throws"
        THEN IF variant = "modal" /\ ~eml
             THEN [r EXCEPT !.pc = "setContent", !.parsed = FallbackBody]
             ELSE thrown(r)
        ELSE IF f.parse = "meeting" /\ variant = "modal" /\ ~eml
        THEN [r EXCEPT !.pc = "postNotice", !.parsed = SkipMeeting]
        ELSE [r EXCEPT !.pc = "setContent", !.parsed = f.text]

Download(d) ==
    /\ dlv[d].pc = "download"
    /\ \E res \in {"ok", "throw"} :
        LET r == [consumed(dlv[d]) EXCEPT !.downloaded = TRUE]
        IN  Upd(d, IF res = "throw" THEN thrown(r)
                   ELSE afterDownload([r EXCEPT !.buf = TRUE]))
    /\ UNCHANGED <<variant, files, sharesVisible, PREVIEW_STORE, calls, auth, ui, txt>>

\* await post({ channel, thread_ts, text: "📅 ..." }) for a meeting notification
PostNotice(d) ==
    /\ dlv[d].pc = "postNotice"
    /\ \E res \in PostResults :
        /\ calls' = calls \cup {[d |-> d, api |-> "chat.postMessage", kind |-> "notice",
                                 channel |-> dlv[d].channel,
                                 thread_ts |-> dlv[d].thread_ts, result |-> res]}
        /\ Upd(d, IF res = "throw" THEN thrown(dlv[d])
                  ELSE [dlv[d] EXCEPT !.pc = "setDone"])
    /\ UNCHANGED <<variant, files, sharesVisible, PREVIEW_STORE, auth, ui, txt>>

\* const body = normalize(parsed); const key = `p:${Date.now()}:${fileId}`;
\* await PREVIEW_STORE.set(key, body);
SetContent(d) ==
    /\ dlv[d].pc = "setContent"
    /\ \E st \in StoreResults, t \in 1..MaxClock :
        IF st = "throw"
        THEN /\ Upd(d, thrown(dlv[d]))
             /\ UNCHANGED PREVIEW_STORE
        ELSE /\ PREVIEW_STORE' = Put(PREVIEW_STORE, contentKey(t, dlv[d].fileId),
                                     normalize(dlv[d].parsed))
             /\ Upd(d, [dlv[d] EXCEPT !.pc = "postPreview",
                                      !.key = contentKey(t, dlv[d].fileId)])
    /\ UNCHANGED <<variant, files, sharesVisible, calls, auth, ui, txt>>

\* await post({ channel, thread_ts, text, blocks: blocksPreview(...) })
PostPreview(d) ==
    /\ dlv[d].pc = "postPreview"
    /\ \E res \in PostResults :
        /\ calls' = calls \cup {[d |-> d, api |-> "chat.postMessage", kind |-> "preview",
                                 channel |-> dlv[d].channel,
                                 thread_ts |-> dlv[d].thread_ts, result |-> res,
                                 key |-> dlv[d].key]}
        /\ Upd(d, IF res = "throw" THEN thrown(dlv[d])
                  ELSE [dlv[d] EXCEPT !.pc = "setDone", !.posted = TRUE])
    /\ UNCHANGED <<variant, files, sharesVisible, PREVIEW_STORE, auth, ui, txt>>

\* await PREVIEW_STORE.set(`done:${fileId}`, "1"); and the try block is left
SetDone(d) ==
    /\ dlv[d].pc = "setDone"
    /\ \E st \in StoreResults :
        LET r == consumed(dlv[d])
        IN  IF st = "throw"
            THEN /\ Upd(d, thrown(r))
                 /\ UNCHANGED PREVIEW_STORE
            ELSE /\ PREVIEW_STORE' = Put(PREVIEW_STORE, doneKey(r.fileId), "1")
                 /\ Upd(d, toFinally([r EXCEPT !.success = r.posted,
                                                !.wroteDone = TRUE]))
    /\ UNCHANGED <<variant, files, sharesVisible, calls, auth, ui, txt>>

\* finally: await PREVIEW_STORE.set(`processing:${fileId}`, "0").catch(() => {});
FinallyProcessing(d) ==
    /\ dlv[d].pc = "finallyProcessing"
    /\ \E st \in StoreResults :
        PREVIEW_STORE' = IF st = "throw" THEN PREVIEW_STORE
                         ELSE Put(PREVIEW_STORE, processingKey(dlv[d].fileId), "0")
    /\ Upd(d, [consumed(dlv[d]) EXCEPT !.pc = "finallyLock",
                                       !.fin = @ \cup {"processing"}])
    /\ UNCHANGED <<variant, files, sharesVisible, calls, auth, ui, txt>>

\* a finalization that releases the lock
finalize_release(s, f) == Delete(s, lockKey(f))

\* PREVIEW_STORE.set(lock, "done")
finalize(s, f) == Put(s, lockKey(f), "done")

\* finally: await PREVIEW_STORE.set(lock, "done"), with .catch(() => {}) in the
\* modal/delete revision only
FinallyLock(d) ==
    /\ dlv[d].pc = "finallyLock"
    /\ \E st \in StoreResults :
        LET r == [consumed(dlv[d]) EXCEPT !.fin = @ \cup {"lock"}]
        IN  IF st = "throw"
            THEN /\ UNCHANGED PREVIEW_STORE
                 /\ Upd(d, ended([r EXCEPT !.exc = IF variant = "modal" THEN @ ELSE TRUE]))
            ELSE /\ PREVIEW_STORE' = finalize(PREVIEW_STORE, r.fileId)
                 /\ Upd(d, ended(r))
    /\ UNCHANGED <<variant, files, sharesVisible, calls, auth, ui, txt>>

\* delete_preview of the modal/delete revision, pressed by its owner on a preview
\* that was posted: chat.delete, then await PREVIEW_STORE.delete(key).catch(() => {})
DeletePreview(c) ==
    /\ variant = "modal"
    /\ c.kind = "preview" /\ c.result = "ok"
    /\ Has(PREVIEW_STORE, c.key)
    /\ PREVIEW_STORE' = Delete(PREVIEW_STORE, c.key)
    /\ UNCHANGED <<variant, files, sharesVisible, dlv, calls, auth, ui, txt>>

(***************************************************************************)
(* handleFileShared of the notice revision: no lock, no store.             *)
(***************************************************************************)
anchor(p) == IF p.thread_ts # "" THEN p.thread_ts ELSE p.ts

\* the first channel of a scope whose first post gives a channel and an anchor
RECURSIVE firstResolvable(_, _)
firstResolvable(entries, k) ==
    IF k > Len(entries) THEN 0
    ELSE IF /\ Len(entries[k].posts) > 0
            /\ entries[k].cid # "" /\ anchor(entries[k].posts[1]) # "" THEN k
    ELSE firstResolvable(entries, k + 1)

resolveFromShares(file) ==
    LET pick(scope) == IF scope.present THEN firstResolvable(scope.entries, 1) ELSE 0
        at(scope, k) == [channel |-> scope.entries[k].cid,
                         thread_ts |-> anchor(scope.entries[k].posts[1])]
    IN  IF pick(file.shares.private) # 0
        THEN at(file.shares.private, pick(file.shares.private))
        ELSE IF pick(file.shares.public) # 0
        THEN at(file.shares.public, pick(file.shares.public))
        ELSE [channel |-> "", thread_ts |-> ""]

\* from the answer of files.info to the first post: channel and thread_ts
afterFilesInfo(r, f) ==
    LET ref == resolveFromShares(f)
        channel == IF r.ev.channel_id # "" THEN r.ev.channel_id
                   ELSE IF r.ev.channel # "" THEN r.ev.channel ELSE ref.channel
        thread_ts == IF r.ev.ts # "" THEN r.ev.ts
                     ELSE IF ref.thread_ts # "" THEN ref.thread_ts ELSE r.ev.event_ts
    IN  IF channel = "" \/ thread_ts = "" THEN caught(r)
        ELSE [r EXCEPT !.pc = "postAnalysing", !.channel = channel,
                       !.thread_ts = thread_ts]

\* const finfo = await filesInfo(fileId); if (!finfo.ok) throw
Info(d) ==
    /\ dlv[d].pc = "info"
    /\ \E res \in {"ok", "err", "throw"} :
        LET r == [dlv[d] EXCEPT !.queried = TRUE]
            f == IF sharesVisible[r.fileId] THEN files[r.fileId]
                 ELSE Unshared(files[r.fileId])
        IN  Upd(d, IF res = "ok" THEN afterFilesInfo(r, f) ELSE caught(r))
    /\ UNCHANGED <<variant, files, sharesVisible, PREVIEW_STORE, calls, auth, ui, txt>>

\* a chat.postMessage of the notice revision, to the delivery's channel and thread
postMessage(d, kind, res) ==
    calls' = calls \cup {[d |-> d, api |-> "chat.postMessage", kind |-> kind,
                           channel |-> dlv[d].channel, thread_ts |-> dlv[d].thread_ts,
                           result |-> res]}

\* the "detected, analysing" post, then the support test and the url test
PostAnalysing(d) ==
    /\ dlv[d].pc = "postAnalysing"
    /\ \E res \in PostResults :
        /\ postMessage(d, "analysing", res)
        /\ Upd(d, IF res = "throw" THEN caught(dlv[d])
                  ELSE IF ~supported(fileOf(dlv[d]).name)
                  THEN [dlv[d] EXCEPT !.pc = "postUnsupported"]
                  ELSE IF ~fileOf(dlv[d]).url THEN caught(dlv[d])
                  ELSE [dlv[d] EXCEPT !.pc = "downloadPrivate"])
    /\ UNCHANGED <<variant, files, sharesVisible, PREVIEW_STORE, auth, ui, txt>>

\* the "unsupported extension" post; return
PostUnsupported(d) ==
    /\ dlv[d].pc = "postUnsupported"
    /\ \E res \in PostResults :
        /\ postMessage(d, "unsupported", res)
        /\ Upd(d, IF res = "throw" THEN caught(dlv[d]) ELSE ended(dlv[d]))
    /\ UNCHANGED <<variant, files, sharesVisible, PREVIEW_STORE, auth, ui, txt>>

\* const buf = await downloadPrivate(url); then parseEML / parseMSG / parseOFT
DownloadPrivate(d) ==
    /\ dlv[d].pc = "downloadPrivate"
    /\ \E res \in {"ok", "throw"} :
        LET r == [dlv[d] EXCEPT !.downloaded = TRUE]
        IN  Upd(d, IF res = "throw" \/ fileOf(r).parse = "throws" THEN caught(r)
                   ELSE [r EXCEPT !.pc = "postResult", !.parsed = fileOf(r).text])
    /\ UNCHANGED <<variant, files, sharesVisible, PREVIEW_STORE, calls, auth, ui, txt>>

\* the post of the normalized text into the thread
PostResult(d) ==
    /\ dlv[d].pc = "postResult"
    /\ \E res \in PostResults :
        /\ postMessage(d, "result", res)
        /\ Upd(d, IF res = "throw" THEN caught(dlv[d])
                  ELSE ended([dlv[d] EXCEPT !.posted = TRUE]))
    /\ UNCHANGED <<variant, files, sharesVisible, PREVIEW_STORE, auth, ui, txt>>

\* the failure notice posted by the handler's catch: nothing catches its throw
PostFailure(d) ==
    /\ dlv[d].pc = "postFailure"
    /\ \E res \in PostResults :
        /\ postMessage(d, "failure", res)
        /\ Upd(d, ended([dlv[d] EXCEPT !.exc = (res = "throw")]))
    /\ UNCHANGED <<variant, files, sharesVisible, PREVIEW_STORE, auth, ui, txt>>

(***************************************************************************)
(* The coordinator: concurrent deliveries about the shared files.          *)
(***************************************************************************)
AuthIdle == [phase |-> "idle"]
UiIdle == [phase |-> "idle"]
TxtIdle == [op |-> ""]

Init ==
    /\ variant \in Variants
    /\ files \in [FileIds -> FileSamples]
    /\ sharesVisible = [f \in FileIds |-> FALSE]
    /\ PREVIEW_STORE = <<>>
    /\ dlv = <<>>
    /\ calls = {}
    /\ auth = AuthIdle
    /\ ui = UiIdle
    /\ txt = TxtIdle

Next ==
    \/ \E ev \in Events : handler(ev)
    \/ \E f \in FileIds : AttachShares(f)
    \/ \E d \in Ds : Diag(d)
    \/ \E d \in Ds : LockRead(d)
    \/ \E d \in Ds : LockWrite(d)
    \/ \E d \in Ds : DoneRead(d)
    \/ \E d \in Ds : ProcessingRead(d)
    \/ \E d \in Ds : Query(d)
    \/ \E d \in Ds : SetProcessing(d)
    \/ \E d \in Ds : Download(d)
    \/ \E d \in Ds : PostNotice(d)
    \/ \E d \in Ds : SetContent(d)
    \/ \E d \in Ds : PostPreview(d)
    \/ \E d \in Ds : SetDone(d)
    \/ \E d \in Ds : FinallyProcessing(d)
    \/ \E d \in Ds : FinallyLock(d)
    \/ \E c \in calls : DeletePreview(c)
    \/ \E d \in Ds : Info(d)
    \/ \E d \in Ds : PostAnalysing(d)
    \/ \E d \in Ds : PostUnsupported(d)
    \/ \E d \in Ds : DownloadPrivate(d)
    \/ \E d \in Ds : PostResult(d)
    \/ \E d \in Ds : PostFailure(d)

Spec == Init /\ [][Next]_vars

\* the platform kills an invocation that holds the lock (its deadline passed, the
\* instance went away): nothing of it runs any more, its finally block included
Die(d) ==
    /\ dlv[d].wroteLock /\ dlv[d].pc # "end"
    /\ Upd(d, [ended(dlv[d]) EXCEPT !.resp = "none", !.dead = TRUE])
    /\ UNCHANGED <<variant, files, sharesVisible, PREVIEW_STORE, calls, auth, ui, txt>>

NextCrash ==
    \/ Next
    \/ \E d \in Ds : Die(d)

SpecCrash == Init /\ [][NextCrash]_vars

(***************************************************************************)
(* Properties of the coordinator.                                          *)
(***************************************************************************)
attempts(f) == {d \in Ds : dlv[d].fileId = f}
previews(ds) == {c \in calls : c.kind = "preview" /\ c.d \in ds}
delivered(ds) == {c \in previews(ds) : c.result = "ok"}
inFlight(f) == {d \in attempts(f) : dlv[d].pc \notin {"lockRead", "end"}}

\* C1: whatever the interleaving of two or more deliveries about one file, the
\* attempts together post exactly one preview. Stated for the runs in which all
\* attempts have ended and Slack accepted at least one preview, so that a file
\* nobody could process, or a post Slack refused, does not count against it.
C1_ExactlyOnePreview ==
    \A f \in FileIds :
        (/\ Cardinality(attempts(f)) >= 2
         /\ \A d \in attempts(f) : dlv[d].pc = "end"
         /\ delivered(attempts(f)) # {})
        => Cardinality(delivered(attempts(f))) = 1

\* the second delivery d2 (file_shared) of the file that d1 (message/file_share)
\* announced reads the lock after d1 wrote it
C2_Scenario(d1, d2) ==
    /\ d1 < d2
    /\ dlv[d1].ev.type = "message" /\ dlv[d1].ev.subtype = "file_share"
    /\ dlv[d2].ev.type = "file_shared"
    /\ dlv[d1].fileId # "" /\ dlv[d2].fileId = dlv[d1].fileId
    /\ d1 \in dlv[d2].after

\* C2: when a file is announced first by a message/file_share event and then by a
\* file_shared event, and the second attempt reads the lock after the first wrote
\* it, the second attempt ends at the lock check: it writes no lock, reads no
\* done marker, asks for no metadata, downloads nothing and posts nothing, and it
\* returns normally unless the store read itself failed. The two attempts post at
\* most one preview, and exactly one when the first attempt reaches its post.
C2_SecondStopsAtLock ==
    \A d1 \in Ds, d2 \in Ds :
        C2_Scenario(d1, d2) =>
            /\ dlv[d2].pc = "end"
            /\ ~dlv[d2].wroteLock /\ ~dlv[d2].queried /\ ~dlv[d2].downloaded
            /\ \A c \in calls : c.d # d2
            /\ ~dlv[d2].exc => (dlv[d2].atLock /\ dlv[d2].resp = "200")
            /\ Cardinality({c \in calls : c.d \in {d1, d2}}) <= 1
            /\ dlv[d1].posted => Cardinality(previews({d1, d2})) = 1

\* C2 witness: the second attempt stopped at the lock check and the first one
\* posted and completed.
C2_Witness ==
    \E d1 \in Ds, d2 \in Ds :
        /\ C2_Scenario(d1, d2)
        /\ dlv[d2].atLock
        /\ dlv[d1].success /\ dlv[d1].pc = "end"
        /\ Cardinality(previews({d1, d2})) = 1

\* C2 as stated: in that scenario exactly one post is made overall.
C2_ExactlyOnePostOverall ==
    \A d1 \in Ds, d2 \in Ds :
        (C2_Scenario(d1, d2) /\ dlv[d1].pc = "end" /\ dlv[d2].pc = "end")
        => (dlv[d2].atLock /\ Cardinality({c \in calls : c.d \in {d1, d2}}) = 1)

\* C3: for one file at most one attempt is in flight past the lock check at any
\* time, and at most one attempt ever completes the success path.
C3_SingleAttemptPastLock ==
    \A f \in FileIds :
        /\ Cardinality(inFlight(f)) <= 1
        /\ Cardinality({d \in attempts(f) : dlv[d].success}) <= 1

\* C6: a delivery that entered handleFileById is answered 200 whatever fails
\* inside: the handler never lets an exception escape.
C6_AlwaysAnswers200 ==
    \A d \in Ds : dlv[d].fileId # "" => dlv[d].resp \in {"pending", "200"}

\* the destination the share records of the file name
sharePlace(d) == placeFromShares(files[dlv[d].fileId])
C7_Case(d) ==
    /\ dlv[d].fileId # "" /\ dlv[d].threadHint = ""
    /\ supported(files[dlv[d].fileId].name)
    /\ sharePlace(d).channel # "" /\ sharePlace(d).thread_ts # ""

\* C7: an attempt without a thread anchor whose k-th metadata query is the first to
\* show share records with a channel and an anchor resolves its destination to that
\* channel and anchor, and its replies go there.
C7_ResolvedToShare ==
    /\ \A d \in Ds :
        (C7_Case(d) /\ dlv[d].loopExit = "share")
        => /\ dlv[d].resolved
           /\ dlv[d].channel = sharePlace(d).channel
           /\ dlv[d].thread_ts = sharePlace(d).thread_ts
    /\ \A c \in calls :
        (C7_Case(c.d) /\ c.kind \in {"preview", "notice"})
        => (c.channel = sharePlace(c.d).channel /\ c.thread_ts = sharePlace(c.d).thread_ts)

\* the file object a files.info answer carried
seen(r) == IF r.vis THEN files[r.fileId] ELSE Unshared(files[r.fileId])

\* C8: filesInfoWithShares asks at most `tries` times; it goes on only while no
\* answer carried share information and returns at the first one that does; when
\* none ever does it stops after exactly `tries` requests.
C8_BoundedQueries ==
    \A d \in Ds :
        /\ dlv[d].nq <= Tries
        /\ dlv[d].pc = "query" => (dlv[d].nq = dlv[d].i /\ dlv[d].i < Tries)
        /\ (dlv[d].pc = "query" /\ dlv[d].last = "ok") => ~hasShareInfo(seen(dlv[d]))
        /\ dlv[d].loopExit = "share" => hasShareInfo(files[dlv[d].fileId])
        /\ dlv[d].loopExit \in {"exhausted", "failed"} => dlv[d].nq = Tries

\* C8 witness: one attempt gave up after exactly `tries` requests, another one
\* returned at a later request than its first, the first to show the shares.
C8_Witness ==
    \E d \in Ds, e \in Ds :
        /\ dlv[d].loopExit = "exhausted" /\ dlv[d].nq = Tries
        /\ dlv[e].loopExit = "share" /\ dlv[e].nq >= 2 /\ dlv[e].nq < Tries

\* the attempts about a file whose name ends in none of .eml, .msg, .oft
unsupportedAttempt(d) == dlv[d].fileId # "" /\ files[dlv[d].fileId].name = NameJpg

\* C11: a file whose name ends in none of .eml, .msg, .oft causes no post-message
\* call and no download. The files.info query that tells the attempt the file's
\* name is not held against the claim.
C11_ZeroOutbound ==
    \A d \in Ds :
        unsupportedAttempt(d) => (~dlv[d].downloaded /\ \A c \in calls : c.d # d)

\* the content entries of file f in the store
entriesOf(f) == {k \in DOMAIN PREVIEW_STORE : k[1] = "p" /\ k[3] = f}

\* C12: when the extracted body is longer than the preview limit, the content
\* entry written to the store holds the complete body: every character of the
\* cleaned text, none cut off.
C12_StoredComplete ==
    \A f \in FileIds : \A k \in entriesOf(f) :
        (files[f].parse = "ok" /\ Len(clean(files[f].text)) > MAX_PREVIEW)
        => PREVIEW_STORE[k] = clean(files[f].text)

\* C13: once an attempt has written lock:{fileId}, the lock is present and not
\* empty in every later state: every write stores "done" or a timestamp, and the
\* one delete of the program, delete_preview, removes content entries only.
C13_LockNeverCleared ==
    \A f \in FileIds :
        lockWriters(f) # {}
        => /\ Truthy(PREVIEW_STORE, lockKey(f))
           /\ PREVIEW_STORE[lockKey(f)] \in {"ts", "done"}

\* C13 witness: an attempt went through its finally block, its preview was
\* deleted again with the delete button, and a later delivery found the lock.
C13_Witness ==
    \E d \in Ds, e \in Ds :
        /\ "lock" \in dlv[d].fin /\ dlv[d].pc = "end"
        /\ delivered({d}) # {} /\ entriesOf(dlv[d].fileId) = {}
        /\ d \in dlv[e].after /\ dlv[e].atLock
        /\ PREVIEW_STORE[lockKey(dlv[d].fileId)] = "done"

\* C14: every attempt that wrote lock:{fileId} and has ended, by a return or by
\* an exception, went through the finally block: it issued the write of "done"
\* to the lock and, in the revision that keeps a processing marker, the write of
\* "0" to processing:{fileId} before that.
C14_FinalizedOnEveryExit ==
    \A d \in Ds :
        (dlv[d].wroteLock /\ dlv[d].pc = "end")
        => /\ "lock" \in dlv[d].fin
           /\ variant = "modal" => "processing" \in dlv[d].fin

\* C14 witness: one attempt left by an exception after its download, another by
\* the early return for a file already done, and both were finalized.
C14_Witness ==
    \E d \in Ds, e \in Ds :
        /\ variant = "modal"
        /\ dlv[d].pc = "end" /\ dlv[d].exc /\ dlv[d].downloaded
        /\ dlv[d].fin = {"processing", "lock"}
        /\ dlv[e].pc = "end" /\ ~dlv[e].exc /\ dlv[e].wroteLock /\ ~dlv[e].queried
        /\ dlv[e].fin = {"processing", "lock"}

\* C15: done:{fileId} is set only when a reply was posted: whenever the marker
\* is present, Slack has accepted a reply (preview or notice) about the file.
C15_DoneImpliesPosted ==
    \A f \in FileIds :
        Truthy(PREVIEW_STORE, doneKey(f))
        => \E c \in calls : c.d \in attempts(f) /\ c.result = "ok"

\* d died holding the lock and e read the lock after d had written it
C16_Later(d, e) == dlv[d].dead /\ e # d /\ d \in dlv[e].after

\* C16: after an invocation died between writing lock:{fileId} and its finally
\* block, the lock stays set and every delivery that reads it afterwards ends at
\* the lock check: it writes nothing, queries nothing, downloads nothing and
\* posts nothing. When the dead invocation was the only one to pass the lock
\* check, every reply about the file and the done marker are its own work from
\* before it died: none if it died before its post.
C16_StuckAfterDeath ==
    \A d \in Ds :
        dlv[d].dead
        => /\ Truthy(PREVIEW_STORE, lockKey(dlv[d].fileId))
           /\ \A e \in Ds :
                C16_Later(d, e)
                => /\ dlv[e].pc = "end" /\ ~dlv[e].wroteLock /\ ~dlv[e].wroteDone
                   /\ ~dlv[e].queried /\ ~dlv[e].downloaded
                   /\ \A c \in calls : c.d # e
                   /\ ~dlv[e].exc => (dlv[e].atLock /\ dlv[e].resp = "200")
           /\ lockWriters(dlv[d].fileId) = {d}
                => /\ \A c \in calls : c.d \in attempts(dlv[d].fileId) => c.d = d
                   /\ Truthy(PREVIEW_STORE, doneKey(dlv[d].fileId)) => dlv[d].wroteDone
                   /\ ~dlv[d].posted => delivered(attempts(dlv[d].fileId)) = {}

\* C16 witness: an invocation died after its download and before its post; a
\* later delivery of the file ended at the lock check; nothing was posted and
\* the file is not done.
C16_Witness ==
    \E d \in Ds, e \in Ds :
        /\ C16_Later(d, e) /\ dlv[d].downloaded /\ ~dlv[d].posted
        /\ dlv[e].atLock /\ dlv[e].pc = "end"
        /\ \A c \in calls : c.d \notin attempts(dlv[d].fileId)
        /\ ~Has(PREVIEW_STORE, doneKey(dlv[d].fileId))

\* C16 as stated: once an invocation has died between the lock write and its
\* finally block, no reply about the file is ever posted and done is never set.
C16_NeverPostedNorDone ==
    \A d \in Ds :
        dlv[d].dead
        => /\ delivered(attempts(dlv[d].fileId)) = {}
           /\ ~Truthy(PREVIEW_STORE, doneKey(dlv[d].fileId))

\* C17: over all attempts about one file at most one content entry
\* p:{timestamp}:{fileId} is created, and once the attempts about the file have
\* ended an entry exists only if a preview was posted and done:{fileId} is set.
C17_OneEntryOnlyOnSuccess ==
    \A f \in FileIds :
        /\ Cardinality(entriesOf(f)) <= 1
        /\ (entriesOf(f) # {} /\ inFlight(f) = {})
           => /\ delivered(attempts(f)) # {}
              /\ Truthy(PREVIEW_STORE, doneKey(f))

\* filesInfoWithShares has just used up its tries and the attempt has no channel
\* or no thread anchor to reply to: no answer was ok, or the last answer showed
\* no share and the hints do not make up a destination
noDestination(r) ==
    \/ r.loopExit = "failed"
    \/ /\ r.loopExit = "exhausted" /\ supported(files[r.fileId].name)
       /\ (r.channel = "" \/ r.thread_ts = "")

\* C21: an attempt that comes out of the retry budget without a destination
\* aborts silently: no error is raised, nothing was downloaded, no reply posted
\* and no content entry written by it. Stated for the modal/delete revision.
C21_SilentAbort ==
    \A d \in Ds :
        (variant = "modal" /\ noDestination(dlv[d]))
        => /\ ~dlv[d].exc /\ dlv[d].resp \in {"pending", "200"}
           /\ ~dlv[d].downloaded /\ dlv[d].key = <<>>
           /\ \A c \in calls : c.d # d

\* C22: no attempt issues the download request for a file whose size is above
\* the byte ceiling: the size is tested before the content is fetched. Stated for
\* handleFileById of the modal/delete revision.
C22_NoOversizeDownload ==
    \A d \in Ds :
        (variant = "modal" /\ dlv[d].downloaded)
        => files[dlv[d].fileId].size <= MAX_FILE_BYTES

\* an attempt of the modal/delete revision holding the bytes of a .msg or .oft
\* file that the extractor cannot parse
fallbackCase(d) ==
    /\ variant = "modal" /\ dlv[d].buf
    /\ fileOf(dlv[d]).parse = "throws" /\ ~isEmlName(fileOf(dlv[d]).name)

\* C26: when parsing a .msg or .oft file throws, the attempt goes on with the
\* fallback text: that text is what it stores as the content entry, it posts one
\* preview and no more, and it leaves the try block with done:{fileId} written.
\* An exception of the attempt comes only from a later store write or from the
\* post itself, never from the parse.
C26_FallbackRecovers ==
    \A d \in Ds :
        fallbackCase(d)
        => /\ dlv[d].parsed = FallbackBody
           /\ dlv[d].exc => \/ dlv[d].key = <<>>
                             \/ \E c \in previews({d}) : c.result = "throw"
                             \/ (dlv[d].posted /\ ~dlv[d].wroteDone)
           /\ (dlv[d].key # <<>> /\ Has(PREVIEW_STORE, dlv[d].key))
              => PREVIEW_STORE[dlv[d].key] = normalize(FallbackBody)
           /\ Cardinality(previews({d})) <= 1
           /\ dlv[d].wroteDone
              => dlv[d].key # <<>> /\ Cardinality(previews({d})) = 1
           /\ (~dlv[d].exc /\ dlv[d].pc \in {"finallyProcessing", "finallyLock"})
              => dlv[d].wroteDone

\* C26 witness: the parse threw, and the attempt has stored the fallback text,
\* posted its preview and written done
C26_Witness ==
    \E d \in Ds :
        /\ fallbackCase(d) /\ dlv[d].pc = "finallyLock" /\ ~dlv[d].exc
        /\ dlv[d].wroteDone /\ Has(PREVIEW_STORE, doneKey(dlv[d].fileId))
        /\ Has(PREVIEW_STORE, dlv[d].key)
        /\ PREVIEW_STORE[dlv[d].key] = normalize(FallbackBody)
        /\ \E c \in delivered({d}) : c.key = dlv[d].key

\* an attempt of the modal/delete revision holding the bytes of a .msg or .oft
\* file for which the extractor returns the meeting sentinel
meetingCase(d) ==
    /\ variant = "modal" /\ dlv[d].buf
    /\ fileOf(dlv[d]).parse = "meeting" /\ ~isEmlName(fileOf(dlv[d]).name)

notices(ds) == {c \in calls : c.kind = "notice" /\ c.d \in ds}

\* C27: when the extractor returns the meeting sentinel the attempt writes no
\* content entry and posts no preview; it posts the fixed notice once, to the
\* channel and thread it resolved, and leaves the try block with done:{fileId}
\* written. An exception of the attempt comes only from that post or from the
\* write of done.
C27_MeetingNotice ==
    \A d \in Ds :
        meetingCase(d)
        => /\ dlv[d].parsed = SkipMeeting
           /\ dlv[d].key = <<>> /\ entriesOf(dlv[d].fileId) = {}
           /\ previews({d}) = {}
           /\ Cardinality(notices({d})) <= 1
           /\ \A c \in notices({d}) :
                /\ c.channel = dlv[d].channel /\ c.thread_ts = dlv[d].thread_ts
                /\ c.channel # "" /\ c.thread_ts # ""
           /\ dlv[d].wroteDone => Cardinality(notices({d})) = 1
           /\ (~dlv[d].exc /\ dlv[d].pc \in {"finallyProcessing", "finallyLock"})
              => dlv[d].wroteDone
           /\ dlv[d].exc => notices({d}) # {}

\* C27 witness: the notice about a meeting notification was accepted and done is
\* written, with no entry for the file
C27_Witness ==
    \E d \in Ds :
        /\ meetingCase(d) /\ dlv[d].pc = "finallyLock" /\ ~dlv[d].exc
        /\ dlv[d].wroteDone /\ Has(PREVIEW_STORE, doneKey(dlv[d].fileId))
        /\ entriesOf(dlv[d].fileId) = {}
        /\ \E c \in notices({d}) : c.result = "ok"

\* handleFileById was given a channel hint and a thread hint
bothHints(d) ==
    /\ variant \in {"modal", "p3"} /\ dlv[d].fileId # ""
    /\ dlv[d].channelHint # "" /\ dlv[d].threadHint # ""

\* C30: an attempt that was given both a channel hint and a thread hint resolves
\* its destination to exactly those two, and every reply it posts goes there,
\* whatever the share records of the file say.
C30_HintsAreDestination ==
    /\ \A d \in Ds :
        (bothHints(d) /\ dlv[d].resolved)
        => (dlv[d].channel = dlv[d].channelHint /\ dlv[d].thread_ts = dlv[d].threadHint)
    /\ \A c \in calls :
        (bothHints(c.d) /\ c.kind \in {"preview", "notice"})
        => (c.channel = dlv[c.d].channelHint /\ c.thread_ts = dlv[c.d].threadHint)

\* C30 witness: a preview went to the hints of its event although the share
\* records of the file name another thread
C30_Witness ==
    \E c \in calls :
        /\ bothHints(c.d) /\ c.kind = "preview" /\ c.result = "ok"
        /\ c.channel = dlv[c.d].channelHint /\ c.thread_ts = dlv[c.d].threadHint
        /\ sharePlace(c.d).thread_ts # ""
        /\ sharePlace(c.d).thread_ts # c.thread_ts

\* an attempt of the modal/delete revision that asked for the metadata of a
\* supported file, found no destination in it and returned without a reply; the
\* file can be downloaded and parsed and its share records do name a channel and
\* an anchor
unanswered(d) ==
    /\ variant = "modal" /\ dlv[d].pc = "end" /\ dlv[d].queried
    /\ ~dlv[d].exc /\ ~dlv[d].wroteDone /\ ~dlv[d].downloaded
    /\ supported(fileOf(dlv[d]).name) /\ fileOf(dlv[d]).url /\ fileOf(dlv[d]).parse = "ok"
    /\ sharePlace(d).channel # "" /\ sharePlace(d).thread_ts # ""

\* C33: when the first attempt for a supported file ended without a reply because
\* the share records were attached only after its retry budget, a delivery of
\* the same file that comes after it, the records now attached, posts the reply.
C33_LaterDeliveryAnswers ==
    \A d \in Ds, e \in Ds :
        (/\ unanswered(d) /\ dlv[d].after = {}
         /\ d < e /\ dlv[e].fileId = dlv[d].fileId /\ d \in dlv[e].after
         /\ sharesVisible[dlv[d].fileId] /\ dlv[e].pc = "end" /\ ~dlv[e].exc)
        => delivered({e}) # {}

\* d takes the step that reads lock:{fileId} and the lock is there
readsHeldLock(d) ==
    /\ dlv[d].pc = "lockRead" /\ dlv'[d].pc # "lockRead"
    /\ Truthy(PREVIEW_STORE, lockKey(dlv[d].fileId))

\* C34: the step of an attempt that reads lock:{fileId} and finds it present ends
\* the attempt: the store is left as it was, key by key, no call is made, and
\* the attempt has written nothing and asked for nothing; unless the read itself
\* failed it returns normally and the handler answers 200.
C34_HeldLockStops ==
    [][\A d \in Ds :
          readsHeldLock(d)
          => /\ PREVIEW_STORE' = PREVIEW_STORE /\ calls' = calls
             /\ dlv'[d].pc = "end"
             /\ ~dlv'[d].wroteLock /\ ~dlv'[d].wroteDone /\ dlv'[d].fin = {}
             /\ ~dlv'[d].queried /\ ~dlv'[d].downloaded /\ dlv'[d].key = <<>>
             /\ ~dlv'[d].exc => (dlv'[d].atLock /\ dlv'[d].resp = "200")]_vars

\* C34 witness: an attempt ended at a lock that another attempt still holds with
\* its timestamp, and the store has the lock and nothing of the attempt
C34_Witness ==
    \E d \in Ds :
        /\ dlv[d].atLock /\ dlv[d].pc = "end" /\ dlv[d].resp = "200"
        /\ PREVIEW_STORE[lockKey(dlv[d].fileId)] = "ts"
        /\ \A c \in calls : c.d # d
        /\ \E e \in dlv[d].after : dlv[e].pc \notin {"end", "finallyLock"}

\* the previews of file f that Slack accepted and whose content entry is gone:
\* the entry is written before the post, so only delete_preview removed it
removedPreviews(f) == {c \in delivered(attempts(f)) : ~Has(PREVIEW_STORE, c.key)}
\* d takes the step that reads lock:{fileId}
readsLock(d) == dlv[d].pc = "lockRead" /\ dlv'[d].pc # "lockRead"

\* C38: a step that removes a key from the store removes one content entry of
\* the modal/delete revision and nothing else: every other key, lock:{fileId},
\* processing:{fileId} and done:{fileId} among them, keeps its value, and no
\* attempt moves. A delivery of the same file that reads the lock after the
\* preview was deleted ends at that read: it makes no call and writes nothing.
C38_DeleteLeavesMarkers ==
    [][/\ \A k \in DOMAIN PREVIEW_STORE :
            ~Has(PREVIEW_STORE', k)
            => /\ variant = "modal" /\ k[1] = "p"
               /\ \A m \in DOMAIN PREVIEW_STORE \ {k} :
                    Has(PREVIEW_STORE', m) /\ PREVIEW_STORE'[m] = PREVIEW_STORE[m]
               /\ calls' = calls /\ dlv' = dlv
       /\ \A e \in Ds :
            (readsLock(e) /\ removedPreviews(dlv[e].fileId) # {})
            => /\ dlv'[e].pc = "end" /\ ~dlv'[e].queried
               /\ calls' = calls /\ PREVIEW_STORE' = PREVIEW_STORE]_vars

\* C38 witness: the preview of an attempt was deleted, the three markers of the
\* file are still in the store, and a delivery that came after the attempt had
\* finished ended at the lock without a call
C38_Witness ==
    \E d \in Ds, e \in Ds :
        /\ removedPreviews(dlv[d].fileId) \cap delivered({d}) # {}
        /\ PREVIEW_STORE[lockKey(dlv[d].fileId)] = "done"
        /\ Truthy(PREVIEW_STORE, doneKey(dlv[d].fileId))
        /\ Has(PREVIEW_STORE, processingKey(dlv[d].fileId))
        /\ d \in dlv[e].after /\ dlv[d].pc = "end" /\ dlv[e].pc = "end" /\ dlv[e].atLock
        /\ \A c \in calls : c.d # e

\* d wrote processing:{fileId} = "1" and is between that write and its finally
\* block: at the download, the content write, or one of the posts
working(d) ==
    variant = "modal" /\ dlv[d].pc \in {"download", "setContent", "postNotice", "postPreview"}

\* C35: while an attempt is between its write of processing:{fileId} = "1" and
\* its finally block, processing:{fileId} is "1". Stated for the runs in which
\* every other attempt for the file got no further than the done and processing
\* checks and no store operation failed.
C35_ProcessingHeld ==
    \A d \in Ds :
        (/\ working(d)
         /\ \A e \in attempts(dlv[d].fileId) \ {d} : ~dlv[e].queried /\ ~dlv[e].exc)
        => /\ Has(PREVIEW_STORE, processingKey(dlv[d].fileId))
           /\ PREVIEW_STORE[processingKey(dlv[d].fileId)] = "1"

(***************************************************************************)
(* Authentication: one request from its arrival to the handler's answer,   *)
(* in each revision of the entry point.                                    *)
(***************************************************************************)
AuthVariants == {"toggle", "modal", "p3", "blobs", "p2", "p4"}
MaxSkew == 300
Clock == {1000}

\* raw bodies: an event_callback about a shared file, an event_callback whose
\* event has type message, a url_verification handshake carrying Challenge, a
\* JSON object carrying __test_base64_eml, a text that is not JSON, and a
\* form-encoded body whose payload= field is not JSON
Bodies == {"event", "message", "handshake", "test", "junk", "form_junk"}
Challenge == "ch"

\* new Response(payload.challenge): the body is the challenge itself
plain(c) == <<c>>
\* JSON.stringify({ challenge }): the challenge quoted inside an object
stringify(c) == <<"{", "\"challenge\"", ":", "\"", c, "\"", "}">>
NoHeader == <<>>
Header(v) == <<v>>

\* `v0=` + HMAC-SHA256(key, `v0:${ts}:${raw}`): equal only for equal key, ts and raw
Sign(key, ts, raw) == <<"v0", key, ts, raw>>

TimestampsAt(now) ==
    {NoHeader, Header(now), Header(now - MaxSkew), Header(now - MaxSkew - 1),
     Header(now + MaxSkew + 1)}

Request(raw, ts, sig, retry) == [raw |-> raw, ts |-> ts, sig |-> sig, retry |-> retry]

\* what a sender can put in x-slack-signature: nothing, or a signature made with
\* the platform's key "s1" or with another key, over this or another body and
\* this or another timestamp
SignaturesFor(now, raw, ts) ==
    {NoHeader} \cup
    { Header(Sign(k, t, b)) : k \in {"s1", "k2"}, t \in {ts, Header(now)},
                              b \in {raw, "event"} }

Requests(now) ==
    UNION { UNION { { Request(raw, ts, sig, retry) :
                        sig \in SignaturesFor(now, raw, ts), retry \in BOOLEAN }
                    : ts \in TimestampsAt(now) }
            : raw \in Bodies }

skew(now, ts) == IF now >= ts[1] THEN now - ts[1] ELSE ts[1] - now

\* verifySlackSignature of the toggle revision, verifySig of the modal revisions
verifySig(secret, raw, ts, sig) ==
    IF secret = "" \/ sig = NoHeader \/ ts = NoHeader THEN FALSE
    ELSE sig = Header(Sign(secret, ts, raw))

\* verifySlackSignature of part_002: an unset secret makes createHmac throw
verifySlackSignatureP2(secret, now, raw, ts, sig) ==
    IF ts = NoHeader \/ sig = NoHeader THEN FALSE
    ELSE IF skew(now, ts) > MaxSkew THEN FALSE
    ELSE IF secret = "" THEN FALSE
    ELSE sig = Header(Sign(secret, ts, raw))

\* verifySlackSignature of part_004
verifySlackSignatureP4(secret, now, raw, ts, sig) ==
    IF secret = "" THEN TRUE
    ELSE IF ts = NoHeader \/ sig = NoHeader THEN FALSE
    ELSE IF skew(now, ts) > MaxSkew THEN FALSE
    ELSE sig = Header(Sign(secret, ts, raw))

\* signCheck of the blobs-log revision, inside its try: a throw counts as a
\* failure; a missing timestamp header signs as the empty string
signCheck(secret, raw, ts, sig) ==
    IF secret = "" THEN FALSE
    ELSE sig = Header(Sign(secret, ts, raw))

verify(a) ==
    LET q == a.req
    IN  CASE variant \in {"toggle", "modal", "p3"} -> verifySig(a.secret, q.raw, q.ts, q.sig)
          [] variant = "blobs" -> signCheck(a.secret, q.raw, q.ts, q.sig)
          [] variant = "p2" -> verifySlackSignatureP2(a.secret, a.now, q.raw, q.ts, q.sig)
          [] OTHER -> verifySlackSignatureP4(a.secret, a.now, q.raw, q.ts, q.sig)

answer(a, status) == [a EXCEPT !.phase = "answered", !.status = status]
\* the answer to a handshake, by the revision's way of building the response
echo(a) ==
    [answer(a, "200") EXCEPT
        !.body = IF variant \in {"blobs", "p4"} THEN stringify(Challenge)
                 ELSE plain(Challenge)]
\* blog / logBlob / blobLog write to the log store when LOG_TO_BLOBS is set; the
\* log of the blobs-log revision writes always
logged(a) == [a EXCEPT !.store = a.store \/ a.logs \/ variant = "blobs"]
\* a debug log that does not ask whether debugging is on
debugLog_always(a) == logged(a)
\* if (ENABLE_DEBUG) await blog(...) of the modal revisions: the parsed body, and
\* in part_003 the retry headers and the raw form body as well
debugLog(a) == IF variant \in {"modal", "p3"} /\ a.debug THEN logged(a) ELSE a
\* loadConfig of part_004 reads runtime.json from the config store
loadConfig(a) == [a EXCEPT !.store = TRUE]
checked(a) == [a EXCEPT !.checked = TRUE, !.verified = verify(a)]

\* an entry point that verifies the signature before it looks for the retry header
entry_verifyFirst(a) ==
    IF ~verify(a) THEN logged(answer(checked(a), "401"))
    ELSE IF variant = "toggle" /\ a.req.retry THEN answer(checked(a), "200")
    ELSE [checked(a) EXCEPT !.phase = "accepted"]

\* the entry point up to the verdict on the signature
entry(a) ==
    CASE variant = "toggle" ->
            IF a.req.retry THEN answer(a, "200")
            ELSE IF ~verify(a) THEN logged(answer(checked(a), "401"))
            ELSE [checked(a) EXCEPT !.phase = "accepted"]
      [] variant = "modal" ->
            IF ~verify(a) THEN logged(answer(checked(a), "401"))
            ELSE [checked(a) EXCEPT !.phase = "accepted"]
      [] variant = "p3" ->
            IF ~verify(a) THEN logged(answer(checked(debugLog(a)), "401"))
            ELSE [checked(debugLog(a)) EXCEPT !.phase = "accepted"]
      [] variant = "blobs" ->
            IF ~verify(a) THEN logged(answer(checked(a), "200"))
            ELSE [checked(a) EXCEPT !.phase = "accepted"]
      [] variant = "p2" ->
            IF a.req.raw = "handshake" THEN echo(a)
            ELSE IF ~verify(a) THEN logged(answer(checked(a), "401"))
            ELSE [checked(a) EXCEPT !.phase = "accepted"]
      [] OTHER ->
            IF a.req.raw = "handshake" THEN echo(loadConfig(a))
            ELSE IF ~verify(a)
            THEN IF a.req.raw = "test"
                 THEN [loadConfig(checked(a)) EXCEPT !.phase = "testBody"]
                 ELSE answer(loadConfig(checked(a)), "401")
            ELSE [loadConfig(checked(a)) EXCEPT !.phase = "accepted"]

\* the request arrives
Receive(q) ==
    /\ auth.phase = "idle"
    /\ auth' = [auth EXCEPT !.phase = "received", !.req = q]
    /\ UNCHANGED <<variant, files, sharesVisible, PREVIEW_STORE, dlv, calls, ui, txt>>

Entry ==
    /\ auth.phase = "received"
    /\ auth' = entry(auth)
    /\ UNCHANGED <<variant, files, sharesVisible, PREVIEW_STORE, dlv, calls, ui, txt>>

\* handleTestBody of part_004 on a body with __test_base64_eml: the size check,
\* the conversion, and postToSlackCodeBlock, which posts unless DRY_RUN is set.
\* Called for an unverified request its exceptions are swallowed and 401 follows;
\* called for a verified one they are answered 200.
TestBody ==
    /\ auth.phase = "testBody"
    /\ \E out \in {"too_large", "convert_throws", "posted", "post_throws"} :
        LET sent == out \in {"posted", "post_throws"} /\ ~auth.dryRun
            failed == out = "convert_throws" \/ (out = "post_throws" /\ ~auth.dryRun)
        IN  auth' = [answer(auth, IF failed /\ ~auth.verified THEN "401" ELSE "200")
                        EXCEPT !.outbound = sent]
    /\ UNCHANGED <<variant, files, sharesVisible, PREVIEW_STORE, dlv, calls, ui, txt>>

\* a body that JSON.parse rejects
badJson(a) ==
    CASE variant = "blobs" -> answer(a, "exception")
      [] variant = "p2" -> answer(a, "200")
      [] variant = "p4" -> answer(a, "400")
      [] OTHER -> logged(answer(a, "400"))

\* the form-encoded branch on a payload= field that is not JSON; the revisions
\* without that branch parse the whole body as JSON
badPayload(a) ==
    CASE variant = "modal" -> logged(answer(a, "200"))
      [] variant \in {"toggle", "p3"} -> answer(debugLog(a), "exception")
      [] OTHER -> badJson(a)

\* what follows the verdict for an accepted request: the handshake echo, the
\* answer to a body that cannot be parsed, and the dispatch of an event. The
\* modal/delete revision answers an event of type message at once, the toggle
\* revision has no branch for it; the others hand it to their event handling.
dispatch(a) ==
    CASE a.req.raw = "handshake" -> echo(debugLog(a))
      [] a.req.raw = "message" /\ variant \in {"modal", "toggle"} ->
            answer(debugLog(a), "200")
      [] a.req.raw = "junk" -> badJson(a)
      [] a.req.raw = "form_junk" -> badPayload(a)
      [] a.req.raw = "test" ->
            IF variant = "p4" THEN [a EXCEPT !.phase = "testBody"]
            ELSE answer(debugLog(a), "200")
      [] OTHER -> [debugLog(a) EXCEPT !.phase = "processing", !.processed = TRUE]

Dispatch ==
    /\ auth.phase = "accepted"
    /\ auth' = dispatch(auth)
    /\ UNCHANGED <<variant, files, sharesVisible, PREVIEW_STORE, dlv, calls, ui, txt>>

InitAuth ==
    /\ variant \in AuthVariants
    /\ files = [f \in FileIds |-> File(NameEml, TRUE, "ok", LongBody, SharesPublic, <<"C1">>, 2048)]
    /\ sharesVisible = [f \in FileIds |-> FALSE]
    /\ PREVIEW_STORE = <<>>
    /\ dlv = <<>>
    /\ calls = {}
    /\ ui = UiIdle
    /\ txt = TxtIdle
    /\ \E secret \in {"", "s1"}, now \in Clock,
          dry \in IF variant = "p4" THEN BOOLEAN ELSE {TRUE},
          logs \in IF variant \in {"toggle", "modal", "p3", "p2"} THEN BOOLEAN ELSE {FALSE},
          debug \in IF variant \in {"modal", "p3"} THEN BOOLEAN ELSE {FALSE} :
        auth = [phase |-> "idle", secret |-> secret, dryRun |-> dry, now |-> now,
                logs |-> logs, debug |-> debug,
                req |-> Request("", NoHeader, NoHeader, FALSE),
                checked |-> FALSE, verified |-> FALSE, status |-> "",
                body |-> <<>>, store |-> FALSE,
                processed |-> FALSE, outbound |-> FALSE]

NextAuth ==
    \/ \E q \in Requests(auth.now) : Receive(q)
    \/ Entry
    \/ TestBody
    \/ Dispatch

SpecAuth == InitAuth /\ [][NextAuth]_vars

\* the signature header is the HMAC of this timestamp and body under the
\* configured secret
CorrectHmac(a) ==
    /\ a.secret # "" /\ a.req.ts # NoHeader
    /\ a.req.sig = Header(Sign(a.secret, a.req.ts, a.req.raw))

\* C4: a request whose signature is not valid is answered 401 and nothing more
\* happens: no event is processed and no outbound call is made, whatever its body
\* and its other headers. Stated for the entry points the claim names.
C4_InvalidSignatureRejected ==
    (variant \in {"toggle", "modal", "p4"} /\ auth.phase # "idle" /\ ~CorrectHmac(auth))
    => /\ ~auth.processed /\ ~auth.outbound
       /\ auth.status \in {"", "401"}

Stale(a) == a.req.ts # NoHeader /\ skew(a.now, a.req.ts) > MaxSkew

\* C5: a request whose timestamp is more than 300 seconds from the current time
\* is rejected by the verifier even when its signature is the correct HMAC of
\* that timestamp and body. Stated for the verifiers the claim names.
C5_StaleRejected ==
    (variant \in {"modal", "p2"} /\ auth.checked /\ Stale(auth) /\ CorrectHmac(auth))
    => ~auth.verified

\* the secret is not configured, or one of the two headers is absent
MissingCredentials(a) ==
    a.secret = "" \/ a.req.ts = NoHeader \/ a.req.sig = NoHeader

\* C18: a request that arrives while the signing secret is not configured, or
\* without its timestamp header or its signature header, is rejected by the
\* verifier: it is not treated as authenticated, no event of it is processed and
\* no outbound call is made for it. Stated for the verifiers the claim names.
C18_MissingRejected ==
    (/\ variant \in {"modal", "p4", "blobs"}
     /\ auth.phase # "idle" /\ MissingCredentials(auth))
    => ~auth.verified /\ ~auth.processed /\ ~auth.outbound

\* C19: a handshake is answered 200 with a body that is exactly the challenge,
\* without any store access and without an outbound call. Stated for the entry
\* points the claim names and for handshakes that carry a valid signature.
C19_HandshakeEchoed ==
    (/\ variant \in {"modal", "p2", "p4"}
     /\ auth.phase = "answered" /\ auth.req.raw = "handshake" /\ CorrectHmac(auth))
    => /\ auth.status = "200" /\ auth.body = plain(Challenge)
       /\ ~auth.store /\ ~auth.outbound

Unparsable(a) == a.req.raw \in {"junk", "form_junk"}

\* C20: an authenticated request whose body cannot be parsed, as an event body
\* or as the payload= field of a form-encoded body, is answered 400, starts no
\* coordinator attempt and makes no outbound call. Stated for the entry points
\* the claim names.
C20_UnparsableAnswered400 ==
    (/\ variant \in {"modal", "p3", "p2"}
     /\ auth.phase = "answered" /\ auth.verified /\ Unparsable(auth))
    => auth.status = "400" /\ ~auth.processed /\ ~auth.outbound

(***************************************************************************)
(* Interactive actions: handleBlockActions on the buttons of a reply.      *)
(***************************************************************************)
UiVariants == {"toggle", "modal", "p3"}
MaxClicks == 3
FirstLineCap == 120

isBlankChar(c) == c \in {" ", "\t", "\r", NL}
\* s.trim() is not empty
hasVisible(line) == \E k \in 1..Len(line) : ~isBlankChar(line[k])

\* (t ?? "").split("\n"): the pieces between the line feeds, each given by the
\* position it starts at; the piece after a closing line feed is empty
lineStarts(t) == {1} \cup {k + 1 : k \in {j \in 1..Len(t) : t[j] = NL}}
lineAt(t, i) ==
    LET feeds == {j \in i..Len(t) : t[j] = NL}
        end == IF feeds = {} THEN Len(t)
               ELSE (CHOOSE j \in feeds : \A x \in feeds : j <= x) - 1
    IN  SubSeq(t, i, end)
\* .find(s => s.trim()) ?? "": the first piece with a visible character
findLine(t) ==
    LET good == {i \in lineStarts(t) : hasVisible(lineAt(t, i))}
    IN  IF good = {} THEN <<>>
        ELSE lineAt(t, CHOOSE i \in good : \A x \in good : i <= x)

\* " " and U+2026, the horizontal ellipsis
Ellipsis == <<" ", "U+2026">>
NoContent == <<"(no content)">>
\* a cap that shortens a line of exactly 120 characters
firstLine_ge(t) ==
    LET l == findLine(t)
    IN  IF Len(l) >= FirstLineCap THEN SubSeq(l, 1, FirstLineCap) \o Ellipsis
        ELSE IF l = <<>> THEN NoContent
        ELSE l

\* l.length > 120 ? l.slice(0, 120) + " ..." : l || "(no content)"
firstLine(t) ==
    LET l == findLine(t)
    IN  IF Len(l) > FirstLineCap THEN SubSeq(l, 1, FirstLineCap) \o Ellipsis
        ELSE IF l = <<>> THEN NoContent
        ELSE l

Expired == <<"(content expired)">>

\* texts a stored body can be
LongLine == [k \in 1..(FirstLineCap + 1) |-> "z"]
Texts ==
    { <<"a", NL, "b">>, <<NL, " ", NL, "x", "y", NL, "c">>, <<>>, LongLine }

\* JSON.stringify({ body, filename }) and a body stored as it is
Json(body, filename) == [kind |-> "json", body |-> body, filename |-> filename]
Plain(body) == [kind |-> "plain", body |-> body, filename |-> ""]

\* what the try { JSON.parse(raw) } catch { String(raw) } of the toggle revision
\* makes of a stored value: the payload's text is not consulted
bodyOf_payload(raw, payloadText) == payloadText
bodyOf(raw, payloadText) == raw.body
filenameOf(raw) == IF raw.kind = "json" THEN raw.filename ELSE "mail"

blocksFull(filename, body, key) ==
    [mode |-> "full", filename |-> filename, text |-> body, value |-> key]
blocksPreview(filename, preview, key) ==
    [mode |-> "preview", filename |-> filename, text |-> preview, value |-> key]

K1 == contentKey(1, "F1")
KX == contentKey(2, "F1")
MalformedValue == <<"malformed">>

\* a block_actions payload: the button pressed, the value it carries, the text of
\* the message it sits on, and whether trigger id, user and message are there
Payload(action_id, value, text, trigger_id, user, message) ==
    [action_id |-> action_id, value |-> value, text |-> text,
     trigger_id |-> trigger_id, user |-> user, message |-> message]

\* the delete button exists on the previews of the modal/delete revision only;
\* its value is the JSON the attempt made, and any member can press it
Payloads ==
    { Payload(a, v, t, tr, u, m) :
        a \in {"show_full", "show_preview", "open_modal", "send_copy_dm"},
        v \in {K1, KX, MalformedValue},
        t \in {<<"a", NL, "b">>, <<"q">>},
        tr \in BOOLEAN, u \in {"U1"}, m \in BOOLEAN }
    \cup { Payload("delete_preview", v, <<"q">>, FALSE, u, m) :
              v \in {K1, KX}, u \in {"U1", "U2", ""}, m \in BOOLEAN }

\* val.owner || null: what handleFileById put into the button's value,
\* ownerHint || f.user || null
ownerIn(value) == IF value = MalformedValue THEN "" ELSE files["F1"].user

\* a test that lets every user delete
mayDelete_anyone(owner, userId) == TRUE

\* if (owner && owner !== userId) { postEphemeral; return }
mayDelete(owner, userId) == ~(owner # "" /\ owner # userId)

uiDone(u, status) == [u EXCEPT !.phase = "done", !.status = status]
\* a handler without the catch around its body
uiThrown_escapes(u) == uiDone(u, "exception")
\* catch (e) { await blog(...); return 200 } of the modal/delete revision; the
\* other revisions have no catch
uiThrown(u) == uiDone(u, IF variant = "modal" THEN "200" ELSE "exception")

\* handleBlockActions up to its first request
uiEntry(u) ==
    LET p == u.payload
    IN  CASE variant = "toggle" ->
                IF ~p.message THEN uiDone(u, "200")
                ELSE [u EXCEPT !.phase = "get", !.key = p.value]
          [] p.action_id = "open_modal" ->
                IF p.value = MalformedValue
                THEN (IF variant = "modal" THEN uiDone(u, "200") ELSE uiThrown(u))
                ELSE IF ~p.trigger_id THEN uiDone(u, "200")
                ELSE [u EXCEPT !.phase = "get", !.key = p.value]
          [] p.action_id = "delete_preview" /\ variant = "modal" ->
                IF p.user = "" \/ ~p.message THEN uiDone(u, "200")
                ELSE IF ~mayDelete(ownerIn(p.value), p.user)
                THEN [u EXCEPT !.phase = "postEphemeral"]
                ELSE [u EXCEPT !.phase = "chatDelete", !.key = p.value]
          [] p.action_id = "send_copy_dm" /\ u.dmCopy ->
                IF p.value = MalformedValue THEN uiThrown(u)
                ELSE IF p.user = "" THEN uiDone(u, "200")
                ELSE [u EXCEPT !.phase = "get", !.key = p.value]
          [] OTHER -> uiDone(u, "200")

\* the user presses a button
Click(p) ==
    /\ ui.phase \in {"idle", "done"}
    /\ ui.n < MaxClicks
    /\ ui' = uiEntry([ui EXCEPT !.n = @ + 1, !.payload = p, !.status = "",
                                !.key = <<>>, !.body = <<>>, !.filename = "",
                                !.missed = FALSE, !.removed = {}])
    /\ UNCHANGED <<variant, files, sharesVisible, PREVIEW_STORE, dlv, calls, auth, txt>>

\* the entry under a key is gone: it expired or was deleted
Expire(k) ==
    /\ Has(PREVIEW_STORE, k)
    /\ PREVIEW_STORE' = Delete(PREVIEW_STORE, k)
    /\ UNCHANGED <<variant, files, sharesVisible, dlv, calls, auth, ui, txt>>

\* let raw = await PREVIEW_STORE.get(key) and what the handler makes of it
uiGot(u) ==
    LET present == Has(PREVIEW_STORE, u.key)
        raw == PREVIEW_STORE[u.key]
        v == [u EXCEPT !.missed = ~present]
    IN  IF variant = "toggle"
        THEN IF ~present \/ (raw.kind = "plain" /\ raw.body = <<>>) THEN uiDone(v, "200")
             ELSE IF u.payload.action_id \in {"show_full", "show_preview"}
             THEN [v EXCEPT !.phase = "update", !.body = bodyOf(raw, u.payload.text),
                            !.filename = filenameOf(raw)]
             ELSE uiDone(v, "200")
        ELSE [v EXCEPT !.phase = IF u.payload.action_id = "open_modal" THEN "viewsOpen"
                                 ELSE "openDM",
                       !.body = IF present THEN raw.body ELSE Expired]

UiGet ==
    /\ ui.phase = "get"
    /\ \E st \in StoreResults :
        ui' = IF st = "throw" THEN uiThrown(ui) ELSE uiGot(ui)
    /\ UNCHANGED <<variant, files, sharesVisible, PREVIEW_STORE, dlv, calls, auth, txt>>

\* what the user is shown by an accepted request
shows(u, api, blocks) == [u EXCEPT !.view = [n |-> u.n, api |-> api, blocks |-> blocks]]

\* await updateMessage({ channel, ts, text, blocks }) of the toggle revision
UiUpdate ==
    /\ ui.phase = "update"
    /\ \E res \in PostResults :
        LET blocks == IF ui.payload.action_id = "show_full"
                      THEN blocksFull(ui.filename, ui.body, ui.key)
                      ELSE blocksPreview(ui.filename, firstLine(ui.body), ui.key)
        IN  ui' = IF res = "throw" THEN uiThrown(ui)
                  ELSE IF res = "error" THEN uiDone(ui, "200")
                  ELSE uiDone(shows(ui, "chat.update", blocks), "200")
    /\ UNCHANGED <<variant, files, sharesVisible, PREVIEW_STORE, dlv, calls, auth, txt>>

\* await viewsOpen({ trigger_id, view: modalView(filename, body, ...) })
UiViewsOpen ==
    /\ ui.phase = "viewsOpen"
    /\ \E res \in PostResults :
        ui' = IF res = "throw" THEN uiThrown(ui)
              ELSE IF res = "error" THEN uiDone(ui, "200")
              ELSE uiDone(shows(ui, "views.open",
                                [mode |-> "modal", filename |-> "", text |-> ui.body,
                                 value |-> ui.key]), "200")
    /\ UNCHANGED <<variant, files, sharesVisible, PREVIEW_STORE, dlv, calls, auth, txt>>

\* const opened = await openDM(uid); if (opened?.ok && opened?.channel?.id)
UiOpenDM ==
    /\ ui.phase = "openDM"
    /\ \E res \in PostResults :
        ui' = IF res = "throw" THEN uiThrown(ui)
              ELSE IF res = "error" THEN uiDone(ui, "200")
              ELSE [ui EXCEPT !.phase = "postDM"]
    /\ UNCHANGED <<variant, files, sharesVisible, PREVIEW_STORE, dlv, calls, auth, txt>>

\* await post({ channel: opened.channel.id, text: ... body ... })
UiPostDM ==
    /\ ui.phase = "postDM"
    /\ \E res \in PostResults :
        ui' = IF res = "throw" THEN uiThrown(ui)
              ELSE IF res = "error" THEN uiDone(ui, "200")
              ELSE uiDone(shows(ui, "chat.postMessage",
                                [mode |-> "dm", filename |-> "", text |-> ui.body,
                                 value |-> ui.key]), "200")
    /\ UNCHANGED <<variant, files, sharesVisible, PREVIEW_STORE, dlv, calls, auth, txt>>

\* await postEphemeral({ channel, user: userId, text }): only the owner may delete
UiPostEphemeral ==
    /\ ui.phase = "postEphemeral"
    /\ \E res \in PostResults :
        ui' = IF res = "ok"
              THEN uiDone(shows(ui, "chat.postEphemeral",
                                [mode |-> "ephemeral", filename |-> "", text |-> <<>>,
                                 value |-> ui.payload.value]), "200")
              ELSE uiDone(ui, "200")
    /\ UNCHANGED <<variant, files, sharesVisible, PREVIEW_STORE, dlv, calls, auth, txt>>

\* await api("chat.delete", { channel, ts: msgTs }): api returns Slack's answer
\* whatever it says; a throw goes to the catch of handleBlockActions
UiChatDelete ==
    /\ ui.phase = "chatDelete"
    /\ \E res \in PostResults :
        ui' = IF res = "throw" THEN uiDone(ui, "200")
              ELSE [ui EXCEPT !.phase = "storeDelete",
                              !.removed = IF res = "ok" THEN {"message"} ELSE {}]
    /\ UNCHANGED <<variant, files, sharesVisible, PREVIEW_STORE, dlv, calls, auth, txt>>

\* if (key) await PREVIEW_STORE.delete(key).catch(() => {})
UiStoreDelete ==
    /\ ui.phase = "storeDelete"
    /\ \E st \in StoreResults :
        IF st = "ok" /\ Has(PREVIEW_STORE, ui.key)
        THEN /\ PREVIEW_STORE' = Delete(PREVIEW_STORE, ui.key)
             /\ ui' = uiDone([ui EXCEPT !.removed = @ \cup {"entry"}], "200")
        ELSE /\ UNCHANGED PREVIEW_STORE
             /\ ui' = uiDone(ui, "200")
    /\ UNCHANGED <<variant, files, sharesVisible, dlv, calls, auth, txt>>

NoView == [n |-> 0, api |-> "", blocks |-> [mode |-> "", filename |-> "", text |-> <<>>,
                                            value |-> <<>>]]

\* the entries a finished attempt of this revision has left under K1
EntriesOf(v) ==
    IF v = "toggle"
    THEN {Json(t, "a.eml") : t \in Texts} \cup {Plain(<<"a", NL, "b">>)}
    ELSE {Plain(t) : t \in Texts \ {<<>>}}

InitUi ==
    /\ variant \in UiVariants
    /\ files = [f \in FileIds |-> File(NameEml, TRUE, "ok", LongBody, SharesPublic, <<"C1">>, 2048)]
    /\ sharesVisible = [f \in FileIds |-> TRUE]
    /\ \E e \in EntriesOf(variant) : PREVIEW_STORE = (K1 :> e)
    /\ dlv = <<>>
    /\ calls = {}
    /\ auth = AuthIdle
    /\ txt = TxtIdle
    /\ \E dm \in BOOLEAN :
        ui = [phase |-> "idle", n |-> 0, dmCopy |-> dm, created |-> PREVIEW_STORE,
              payload |-> Payload("", <<>>, <<>>, FALSE, "", FALSE), key |-> <<>>,
              body |-> <<>>, filename |-> "", missed |-> FALSE, status |-> "",
              removed |-> {}, view |-> NoView]

NextUi ==
    \/ \E p \in Payloads : Click(p)
    \/ \E k \in {K1} : Expire(k)
    \/ UiGet
    \/ UiUpdate
    \/ UiViewsOpen
    \/ UiOpenDM
    \/ UiPostDM
    \/ UiPostEphemeral
    \/ UiChatDelete
    \/ UiStoreDelete

SpecUi == InitUi /\ [][NextUi]_vars

\* C9: in the toggle revision every show_full render shows exactly the body stored
\* under the button's key when the entry was created, and every show_preview
\* render shows firstLine of that body, whatever text the payload carried; and no
\* step of a toggle action changes the store.
C9_RenderInv ==
    (variant = "toggle" /\ ui.view.api = "chat.update")
    => LET orig == ui.created[ui.view.blocks.value]
       IN  /\ ui.view.blocks.value \in DOMAIN ui.created
           /\ ui.view.blocks.mode = "full" => ui.view.blocks.text = orig.body
           /\ ui.view.blocks.mode = "preview" => ui.view.blocks.text = firstLine(orig.body)
C9_NoStoreWrite ==
    (variant = "toggle" /\ ui' # ui) => PREVIEW_STORE' = PREVIEW_STORE
C9_ToggleRendersStored == []C9_RenderInv /\ [][C9_NoStoreWrite]_vars

\* C9 witness: the third action on one reply, a show_full whose payload carried
\* another text than the stored one, has rendered.
C9_Witness ==
    /\ variant = "toggle" /\ ui.phase = "done" /\ ui.n = 3
    /\ ui.view.n = 3 /\ ui.view.blocks.mode = "full"
    /\ ui.payload.text # ui.view.blocks.text
    /\ ui.view.blocks.text = ui.created[K1].body

\* C10: an action on a key that is absent from the store is answered 200 and the
\* user is shown "(content expired)".
C10_ExpiredRendered ==
    (ui.phase = "done" /\ ui.missed)
    => /\ ui.status = "200"
       /\ ui.view.n = ui.n /\ ui.view.blocks.text = Expired

\* an authenticated event of type message at the modal/delete entry point
messageEvent(a) ==
    variant = "modal" /\ a.phase = "answered" /\ a.req.raw = "message" /\ CorrectHmac(a)

\* C25 as stated: in the modal/delete revision an event of type message is
\* answered 200 without any store access, without an outbound call and without
\* starting an attempt.
C25_MessageIgnored ==
    messageEvent(auth)
    => auth.status = "200" /\ ~auth.processed /\ ~auth.outbound /\ ~auth.store

\* C25 amended: in the modal/delete revision an event of type message is
\* answered 200 without an outbound call and without starting an attempt; the
\* only store access is the write of the raw body to the log store, made when
\* DEBUG_MODE is on and LOG_TO_BLOBS is set.
C25_MessageIgnoredButLogged ==
    messageEvent(auth)
    => /\ auth.status = "200" /\ ~auth.processed /\ ~auth.outbound
       /\ auth.store <=> (auth.debug /\ auth.logs)

\* C25 witness: a message event answered 200 after its body went to the log store
C25_Witness ==
    messageEvent(auth) /\ auth.status = "200" /\ auth.store /\ ~auth.processed

\* C39: in the modal/delete revision every block_actions payload is answered 200
\* by handleBlockActions: a malformed button value, a missing trigger id, a
\* vanished key, a failing store or outbound call never leave it as an exception,
\* and while the action is under way no answer has been given yet.
C39_ActionsAnswer200 ==
    (variant = "modal" /\ ui.phase # "idle")
    => /\ ui.status \in {"", "200"}
       /\ ui.phase = "done" <=> ui.status = "200"

\* C39 witness: the owner's delete was answered 200 although neither the message
\* nor the entry was removed: chat.delete threw, or it was refused and the
\* delete of the entry failed
C39_Witness ==
    /\ variant = "modal" /\ ui.phase = "done" /\ ui.status = "200"
    /\ ui.payload.action_id = "delete_preview" /\ ui.payload.value = K1
    /\ ui.payload.user = files["F1"].user /\ ui.payload.message
    /\ ui.removed = {} /\ Has(PREVIEW_STORE, K1)

\* a request carrying x-slack-retry-num at the toggle entry point
retried(a) == variant = "toggle" /\ a.phase # "idle" /\ a.req.retry

\* C37: in the toggle revision a request that carries the x-slack-retry-num header
\* is answered 200 at the first step of the handler: the signature is not
\* verified, no store is read or written, no outbound call is made and no event
\* is processed, whatever the body, the signature and the timestamp.
C37_RetryAnsweredAtOnce ==
    retried(auth)
    => /\ auth.phase \in {"received", "answered"}
       /\ auth.phase = "answered" => auth.status = "200"
       /\ ~auth.checked /\ ~auth.store /\ ~auth.outbound /\ ~auth.processed

\* C37 witness: a retry of a correctly signed file event has been answered 200
\* and nothing was processed
C37_Witness ==
    /\ retried(auth) /\ auth.phase = "answered" /\ auth.status = "200"
    /\ auth.req.raw = "event" /\ CorrectHmac(auth) /\ ~auth.processed

\* the action under way, or just answered, is a delete_preview pressed by a user
\* who is not the one recorded as the file's owner
deleteByOther(u) ==
    /\ variant = "modal" /\ u.phase # "idle"
    /\ u.payload.action_id = "delete_preview"
    /\ u.payload.user # files["F1"].user

doneKeyAt(f, channel, thread_ts) == <<"done", f, channel, thread_ts>>

\* the dispatch of an event_callback in the toggle revision
routeToggle(ev) ==
    LET fileId == IF ev.file_id # "" THEN ev.file_id ELSE first(ev.files)
    IN  IF ev.type = "app_mention" /\ ev.diag
        THEN [Idle(ev) EXCEPT !.pc = IF ev.channel # "" THEN "diag" ELSE "end",
                              !.resp = IF ev.channel # "" THEN "pending" ELSE "200"]
        ELSE IF ev.type = "file_shared" /\ fileId # ""
        THEN [Idle(ev) EXCEPT !.pc = "filesInfo", !.resp = "pending", !.fileId = fileId]
        ELSE Idle(ev)

handlerToggle(ev) ==
    /\ Len(dlv) < MaxDeliveries
    /\ dlv' = Append(dlv, routeToggle(ev))
    /\ UNCHANGED <<variant, files, sharesVisible, PREVIEW_STORE, calls, auth, ui, txt>>

\* from the answer of files.info to the read of the done key
afterFinfo(r, f) ==
    LET sharesRef == resolveFromShares(f)
        channel == IF r.ev.channel_id # "" THEN r.ev.channel_id
                   ELSE IF r.ev.channel # "" THEN r.ev.channel ELSE sharesRef.channel
        thread_ts == IF r.ev.ts # "" THEN r.ev.ts
                     ELSE IF sharesRef.thread_ts # "" THEN sharesRef.thread_ts
                     ELSE r.ev.event_ts
    IN  IF ~supported(f.name) THEN ended(r)
        ELSE IF channel = "" \/ thread_ts = "" THEN ended(r)
        ELSE [r EXCEPT !.pc = "doneGet", !.channel = channel, !.thread_ts = thread_ts]

\* const finfo = await filesInfo(fileId); if (!finfo.ok) return;
FilesInfo(d) ==
    /\ dlv[d].pc = "filesInfo"
    /\ \E res \in {"ok", "err", "throw"} :
        LET r == [dlv[d] EXCEPT !.queried = TRUE]
            f == IF sharesVisible[r.fileId] THEN files[r.fileId]
                 ELSE Unshared(files[r.fileId])
        IN  Upd(d, IF res = "ok" THEN afterFinfo(r, f) ELSE ended(r))
    /\ UNCHANGED <<variant, files, sharesVisible, PREVIEW_STORE, calls, auth, ui, txt>>

\* if (await PREVIEW_STORE.get(doneKey)) return; then the url test
DoneGet(d) ==
    /\ dlv[d].pc = "doneGet"
    /\ \E st \in StoreResults :
        LET r == dlv[d]
        IN  Upd(d, IF st = "throw" THEN ended(r)
                   ELSE IF Truthy(PREVIEW_STORE, doneKeyAt(r.fileId, r.channel, r.thread_ts))
                   THEN ended(r)
                   ELSE IF ~fileOf(r).url THEN ended(r)
                   ELSE [r EXCEPT !.pc = "fetch"])
    /\ UNCHANGED <<variant, files, sharesVisible, PREVIEW_STORE, calls, auth, ui, txt>>

\* const buf = await downloadPrivate(url); parsed = await parseEML(buf) or
\* parseMSGorOFT(buf); body = normalizeText(parsed)
Fetch(d) ==
    /\ dlv[d].pc = "fetch"
    /\ \E res \in {"ok", "throw"} :
        LET r == dlv[d]
        IN  Upd(d, IF res = "throw" \/ fileOf(r).parse = "throws" THEN ended(r)
                   ELSE [r EXCEPT !.pc = "setData", !.downloaded = TRUE,
                                  !.parsed = normalize(fileOf(r).text)])
    /\ UNCHANGED <<variant, files, sharesVisible, PREVIEW_STORE, calls, auth, ui, txt>>

\* await PREVIEW_STORE.set(dataKey, JSON.stringify({ body, filename }))
SetData(d) ==
    /\ dlv[d].pc = "setData"
    /\ \E st \in StoreResults, t \in 1..MaxClock :
        LET r == dlv[d]
            dataKey == contentKey(t, r.fileId)
        IN  IF st = "throw"
            THEN /\ Upd(d, ended(r))
                 /\ UNCHANGED PREVIEW_STORE
            ELSE /\ PREVIEW_STORE' = Put(PREVIEW_STORE, dataKey,
                                         Json(r.parsed, fileOf(r).name))
                 /\ Upd(d, [r EXCEPT !.pc = "setDoneAt", !.key = dataKey])
    /\ UNCHANGED <<variant, files, sharesVisible, calls, auth, ui, txt>>

\* await PREVIEW_STORE.set(doneKey, "1"), before the preview is posted
SetDoneAt(d) ==
    /\ dlv[d].pc = "setDoneAt"
    /\ \E st \in StoreResults :
        LET r == dlv[d]
        IN  IF st = "throw"
            THEN /\ Upd(d, ended(r))
                 /\ UNCHANGED PREVIEW_STORE
            ELSE /\ PREVIEW_STORE' = Put(PREVIEW_STORE,
                                         doneKeyAt(r.fileId, r.channel, r.thread_ts), "1")
                 /\ Upd(d, [r EXCEPT !.pc = "postReply", !.wroteDone = TRUE])
    /\ UNCHANGED <<variant, files, sharesVisible, calls, auth, ui, txt>>

\* await postMessage({ channel, thread_ts, text, blocks: blocksPreview(...) }):
\* the answer of Slack is returned unread, a failed request throws
PostReply(d) ==
    /\ dlv[d].pc = "postReply"
    /\ \E res \in PostResults :
        /\ calls' = calls \cup {[d |-> d, api |-> "chat.postMessage", kind |-> "preview",
                                 channel |-> dlv[d].channel,
                                 thread_ts |-> dlv[d].thread_ts, result |-> res,
                                 key |-> dlv[d].key]}
        /\ Upd(d, ended([dlv[d] EXCEPT !.posted = (res # "throw")]))
    /\ UNCHANGED <<variant, files, sharesVisible, PREVIEW_STORE, auth, ui, txt>>

InitToggle ==
    /\ variant = "toggle"
    /\ files \in [FileIds -> FileSamples]
    /\ sharesVisible = [f \in FileIds |-> FALSE]
    /\ PREVIEW_STORE = <<>>
    /\ dlv = <<>>
    /\ calls = {}
    /\ auth = AuthIdle
    /\ ui = UiIdle
    /\ txt = TxtIdle

NextToggle ==
    \/ \E ev \in Events : handlerToggle(ev)
    \/ \E f \in FileIds : AttachShares(f)
    \/ \E d \in Ds : Diag(d)
    \/ \E d \in Ds : FilesInfo(d)
    \/ \E d \in Ds : DoneGet(d)
    \/ \E d \in Ds : Fetch(d)
    \/ \E d \in Ds : SetData(d)
    \/ \E d \in Ds : SetDoneAt(d)
    \/ \E d \in Ds : PostReply(d)

SpecToggle == InitToggle /\ [][NextToggle]_vars

\* the done keys of the store, each naming a file and a destination
doneKeys == {k \in DOMAIN PREVIEW_STORE : k[1] = "done" /\ Len(k) = 4}
\* the replies Slack accepted for a file at a destination
repliesAt(f, channel, thread_ts) ==
    {c \in calls : /\ c.kind = "preview" /\ c.result = "ok"
                   /\ dlv[c.d].fileId = f
                   /\ c.channel = channel /\ c.thread_ts = thread_ts}

\* C36: in the toggle revision, once every delivery has been answered, a done key
\* in the store means that a preview reply for that file was posted to that
\* destination.
C36_DoneMeansPosted ==
    (variant = "toggle" /\ \A d \in Ds : dlv[d].pc = "end")
    => \A k \in doneKeys : Truthy(PREVIEW_STORE, k) => repliesAt(k[2], k[3], k[4]) # {}

(***************************************************************************)
(* Text functions on their own: a JavaScript string is its UTF-16 code     *)
(* units; a character outside ASCII is written U+ and its code.            *)
(***************************************************************************)
TextVariants == {"toggle", "modal", "p3", "p4"}
MaxChars == 3

\* the characters of the basic plane that take three bytes in UTF-8
Wide ==
    {"U+203B", "U+3002", "U+3042", "U+3044", "U+304D", "U+304F", "U+3053",
     "U+3055", "U+3060", "U+3067", "U+306E", "U+306F", "U+3092", "U+5168",
     "U+53C2", "U+5B8C", "U+6210", "U+7167", "U+7248", "U+751F", "U+7D9A"}
\* U+1F600 as its surrogate pair
High == "U+D83D"
Low == "U+DE00"

\* the code unit at k is one half of a surrogate pair
pairedHigh(s, k) == s[k] = High /\ k < Len(s) /\ s[k + 1] = Low
pairedLow(s, k) == s[k] = Low /\ k > 1 /\ s[k - 1] = High

\* the bytes the code unit at k adds in UTF-8: a surrogate pair is one character
\* of four bytes, a surrogate on its own is encoded as U+FFFD
bytesAt(s, k) ==
    IF pairedHigh(s, k) THEN 4
    ELSE IF pairedLow(s, k) THEN 0
    ELSE IF s[k] \in Wide \cup {High, Low} THEN 3
    ELSE 1

RECURSIVE bytesIn(_, _, _)
bytesIn(s, lo, hi) ==
    IF lo > hi THEN 0
    ELSE IF lo = hi THEN bytesAt(s, lo)
    ELSE LET m == (lo + hi) \div 2
         IN  bytesIn(s, lo, m) + bytesIn(s, m + 1, hi)

\* Buffer.byteLength(s, "utf8")
byteLength(s) == bytesIn(s, 1, Len(s))

\* no surrogate stands without its other half
wellFormed(s) ==
    \A k \in 1..Len(s) :
        /\ s[k] = High => pairedHigh(s, k)
        /\ s[k] = Low => pairedLow(s, k)

\* s.slice(0, n) for n >= 0
slice(s, n) == SubSeq(s, 1, IF n < Len(s) THEN n ELSE Len(s))
max(a, b) == IF a >= b THEN a ELSE b

\* s.slice(i, j) for 0 <= i <= j
sliceFrom(s, i, j) == SubSeq(s, i + 1, IF j < Len(s) THEN j ELSE Len(s))

\* a loop that steps one character further than it cuts
RECURSIVE chunkFrom_skip(_, _, _)
chunkFrom_skip(s, n, i) ==
    IF i < Len(s) THEN <<sliceFrom(s, i, i + n)>> \o chunkFrom_skip(s, n, i + n + 1)
    ELSE <<>>

\* for (let i = 0; i < s.length; i += n) a.push(s.slice(i, i + n))
RECURSIVE chunkFrom(_, _, _)
chunkFrom(s, n, i) ==
    IF i < Len(s) THEN <<sliceFrom(s, i, i + n)>> \o chunkFrom(s, n, i + n)
    ELSE <<>>
chunk(s, n) == chunkFrom(s, n, 0)

\* the section blocks of modalView: each chunk between code fences, or the one
\* placeholder block
BlockChars == 2900
Fence == <<"U+0060", "U+0060", "U+0060">>
fenced(c) == Fence \o <<NL>> \o c \o <<NL>> \o Fence
EmptyBlock == <<"U+FF08", "U+5185", "U+5BB9", "U+306A", "U+3057", "U+FF09">>
modalView(body) ==
    LET cs == chunk(body, BlockChars)
    IN  IF Len(cs) = 0 THEN <<EmptyBlock>> ELSE [k \in 1..Len(cs) |-> fenced(cs[k])]

\* the notice postToSlackCodeBlock ends every post with
tail ==
    <<NL, NL, "-", "-", "-", NL, "U+203B", " ", "U+3053", "U+306E", "U+7D9A",
      "U+304D", "/", "U+5B8C", "U+5168", "U+7248", "U+306F", " ", "e", "m",
      "l", " ", "U+3092", "U+751F", "U+6210", "A", "I", "U+3067", "U+53C2",
      "U+7167", "U+304F", "U+3060", "U+3055", "U+3044", "U+3002">>
MAX_POST_CHARS == 3600

\* const merged = safe.slice(0, Math.max(0, (cfg.MAX_POST_CHARS || 3600) -
\* tail.length)) + tail
\* cfg.MAX_POST_CHARS || 3600
postChars(maxPostChars) == IF maxPostChars # 0 THEN maxPostChars ELSE MAX_POST_CHARS
merged(text, maxPostChars) ==
    slice(text, max(0, postChars(maxPostChars) - Len(tail))) \o tail

\* the characters the texts are made of, each as its code units
Characters == {<<"a">>, <<" ">>, <<NL>>, <<"U+3042">>, <<High, Low>>}
RECURSIVE Strings(_)
Strings(n) ==
    IF n = 0 THEN {<<>>}
    ELSE LET shorter == Strings(n - 1)
         IN  shorter \cup {c \o s : c \in Characters, s \in shorter}

\* lines around the cap of firstLine, alone and among other lines
Zs(n) == [k \in 1..n |-> "z"]
LongTexts ==
    { pre \o Zs(n) \o post :
        pre \in {<<>>, <<" ", NL>>}, post \in {<<>>, <<NL, "b">>},
        n \in {FirstLineCap - 1, FirstLineCap, FirstLineCap + 1} }
\* texts around the limit of normalize, with something to clean
EdgeTexts ==
    { pre \o [k \in 1..n |-> "y"] \o post :
        pre \in {<<>>, <<"\t">>, <<" ", "\r", NL>>}, post \in {<<>>, <<"\r", NL>>},
        n \in {MAX_PREVIEW - 2, MAX_PREVIEW - 1, MAX_PREVIEW, MAX_PREVIEW + 1} }
\* bodies around one and two blocks of the modal, the inputs of modalView alone:
\* the character at k tells k
Digits == <<"0", "1", "2", "3", "4", "5", "6", "7", "8", "9">>
BlockTexts ==
    { [k \in 1..n |-> Digits[(k % 10) + 1]] :
        n \in {BlockChars - 1, BlockChars, BlockChars + 1, 2 * BlockChars,
               2 * BlockChars + 1} }
TextInputs == Strings(MaxChars) \cup LongTexts \cup EdgeTexts
\* the share records files.info can answer with: per scope up to MaxDestinations
\* destinations, each with no record, one record of a top-level post, one record
\* of a reply in a thread, or two records; every record carries its ts
MaxDestinations == 2
PostLists ==
    {<<>>, <<Post("", "t1")>>, <<Post("t2", "t1")>>, <<Post("", "t3"), Post("t4", "t5")>>}
Destinations == {[cid |-> c, posts |-> ps] : c \in {"C1", "C2"}, ps \in PostLists}
RECURSIVE DestinationLists(_)
DestinationLists(n) ==
    IF n = 0 THEN {<<>>}
    ELSE LET shorter == DestinationLists(n - 1)
         IN  shorter \cup {<<e>> \o l : e \in Destinations, l \in shorter}
Scopes == {NoScope} \cup {Scope(l) : l \in DestinationLists(MaxDestinations)}
ShareInputs ==
    {File(NameEml, TRUE, "ok", <<>>, [private |-> a, public |-> b], ch, 2048) :
        a \in Scopes, b \in Scopes, ch \in {<<>>, <<"C9">>}}
NoPlace == [channel |-> "", thread_ts |-> ""]
\* values of MAX_POST_CHARS in runtime.json: unset in effect, below the length of
\* the notice, and leaving room for one to five characters of text
PostBudgets == {0, 20, 36, 37, 40}

InitText ==
    /\ variant \in TextVariants
    /\ files = [f \in FileIds |-> File(NameEml, TRUE, "ok", LongBody, SharesPublic, <<"C1">>, 2048)]
    /\ sharesVisible = [f \in FileIds |-> TRUE]
    /\ PREVIEW_STORE = <<>>
    /\ dlv = <<>>
    /\ calls = {}
    /\ auth = AuthIdle
    /\ ui = UiIdle
    /\ \/ \E t \in TextInputs, b \in IF variant = "p4" THEN PostBudgets ELSE {0} :
            txt = [op |-> "", input |-> t, budget |-> b, out |-> <<>>,
                   file |-> files["F1"], place |-> NoPlace, blocks |-> <<>>]
       \/ /\ variant \in {"modal", "p3"}
          /\ \E t \in BlockTexts :
            txt = [op |-> "", input |-> t, budget |-> 0, out |-> <<>>,
                   file |-> files["F1"], place |-> NoPlace, blocks |-> <<>>]
       \/ /\ variant # "p4"
          /\ \E f \in ShareInputs :
            txt = [op |-> "", input |-> <<>>, budget |-> 0, out |-> <<>>,
                   file |-> f, place |-> NoPlace, blocks |-> <<>>]

\* postToSlackCodeBlock builds the text of its post
PostToSlackCodeBlock ==
    /\ variant = "p4" /\ txt.op = ""
    /\ txt' = [txt EXCEPT !.op = "postToSlackCodeBlock",
                          !.out = merged(txt.input, txt.budget)]
    /\ UNCHANGED <<variant, files, sharesVisible, PREVIEW_STORE, dlv, calls, auth, ui>>

\* const body = normalize(parsed)
Normalize ==
    /\ variant # "p4" /\ txt.op = "" /\ txt.input \notin BlockTexts
    /\ txt' = [txt EXCEPT !.op = "normalize", !.out = normalize(txt.input)]
    /\ UNCHANGED <<variant, files, sharesVisible, PREVIEW_STORE, dlv, calls, auth, ui>>

\* const preview = firstLine(body)
FirstLine ==
    /\ variant # "p4" /\ txt.op = "" /\ txt.input \notin BlockTexts
    /\ txt' = [txt EXCEPT !.op = "firstLine", !.out = firstLine(txt.input)]
    /\ UNCHANGED <<variant, files, sharesVisible, PREVIEW_STORE, dlv, calls, auth, ui>>

\* const r = placeFromShares(f)
PlaceFromShares ==
    /\ variant \in {"modal", "p3"} /\ txt.op = ""
    /\ txt' = [txt EXCEPT !.op = "placeFromShares", !.place = placeFromShares(txt.file)]
    /\ UNCHANGED <<variant, files, sharesVisible, PREVIEW_STORE, dlv, calls, auth, ui>>

\* const ref = resolveFromShares(f)
ResolveFromShares ==
    /\ variant = "toggle" /\ txt.op = ""
    /\ txt' = [txt EXCEPT !.op = "resolveFromShares",
                          !.place = resolveFromShares(txt.file)]
    /\ UNCHANGED <<variant, files, sharesVisible, PREVIEW_STORE, dlv, calls, auth, ui>>

\* view: modalView(filename, body, meta)
ModalView ==
    /\ variant \in {"modal", "p3"} /\ txt.op = ""
    /\ txt' = [txt EXCEPT !.op = "modalView", !.blocks = modalView(txt.input)]
    /\ UNCHANGED <<variant, files, sharesVisible, PREVIEW_STORE, dlv, calls, auth, ui>>

NextText ==
    \/ ModalView
    \/ PostToSlackCodeBlock
    \/ Normalize
    \/ FirstLine
    \/ PlaceFromShares
    \/ ResolveFromShares

SpecText == InitText /\ [][NextText]_vars

\* C23: whatever the text and the budget B, the truncated text the raw-text
\* export posts takes at most B bytes in UTF-8, its closing notice included,
\* and splits no multi-byte character.
C23_ByteSafe ==
    txt.op = "postToSlackCodeBlock"
    => byteLength(txt.out) <= postChars(txt.budget) /\ wellFormed(txt.out)

\* t[i..j] is a whole line of t with a visible character, and nothing visible
\* comes before it
firstNonBlank(t, i, j) ==
    /\ i = 1 \/ t[i - 1] = NL
    /\ j = Len(t) \/ t[j + 1] = NL
    /\ \A k \in i..j : t[k] # NL
    /\ \E k \in i..j : ~isBlankChar(t[k])
    /\ \A k \in 1..(i - 1) : isBlankChar(t[k])

\* C28: firstLine returns the first line that is not blank, unchanged when it has
\* at most 120 characters and otherwise its first 120 characters followed by the
\* ellipsis; a text without a visible character gives "(no content)".
C28_FirstLine ==
    txt.op = "firstLine"
    => LET t == txt.input
       IN  IF \A k \in 1..Len(t) : isBlankChar(t[k]) THEN txt.out = NoContent
           ELSE \E i \in 1..Len(t) : \E j \in i..Len(t) :
                   /\ firstNonBlank(t, i, j)
                   /\ txt.out = IF j - i + 1 > FirstLineCap
                                THEN SubSeq(t, i, i + FirstLineCap - 1) \o Ellipsis
                                ELSE SubSeq(t, i, j)

\* C28 witness: a line of 121 characters after a blank line has been capped
C28_Witness ==
    /\ txt.op = "firstLine" /\ txt.input # <<>> /\ txt.input[1] = " "
    /\ Len(txt.out) = FirstLineCap + Len(Ellipsis)
    /\ endsWith(txt.out, Ellipsis)

\* C29: normalize returns the cleaned text as it is when it has at most
\* MAX_PREVIEW characters, and otherwise its first MAX_PREVIEW characters followed
\* by the "(truncated)" marker line; the marker is there exactly when something
\* was cut.
C29_Normalize ==
    txt.op = "normalize"
    => LET s == clean(txt.input)
       IN  /\ Len(s) <= MAX_PREVIEW => txt.out = s
           /\ Len(s) > MAX_PREVIEW
              => /\ Len(txt.out) = MAX_PREVIEW + Len(Truncated)
                 /\ \A k \in 1..MAX_PREVIEW : txt.out[k] = s[k]
           /\ endsWith(txt.out, Truncated) <=> Len(s) > MAX_PREVIEW

\* C29 witness: a text that cleaning shortens to one character over the limit
\* has been cut
C29_Witness ==
    /\ txt.op = "normalize"
    /\ Len(txt.input) > Len(clean(txt.input))
    /\ Len(clean(txt.input)) = MAX_PREVIEW + 1
    /\ endsWith(txt.out, Truncated)

\* the destinations of a file in the order of the scan: the private scope, then
\* the public one
destinations(file) == file.shares.private.entries \o file.shares.public.entries
shared(file) == {k \in 1..Len(destinations(file)) : Len(destinations(file)[k].posts) > 0}

\* C31: placeFromShares and resolveFromShares scan the private scope before the
\* public one and the destinations of a scope in order, and return the first
\* destination that has a share record, with the anchor of its first record:
\* thread_ts when the record has one, else ts. Whenever there is a share record
\* the pair has a channel and an anchor.
C31_FirstShare ==
    (txt.op \in {"placeFromShares", "resolveFromShares"} /\ shared(txt.file) # {})
    => LET k == CHOOSE i \in shared(txt.file) : \A j \in shared(txt.file) : i <= j
           e == destinations(txt.file)[k]
       IN  /\ txt.place.channel = e.cid
           /\ txt.place.thread_ts = IF e.posts[1].thread_ts # "" THEN e.posts[1].thread_ts
                                    ELSE e.posts[1].ts
           /\ txt.place.channel # "" /\ txt.place.thread_ts # ""

\* C31 witness: the private scope has a destination without records and then a
\* reply in a thread, the public scope has a record too; the thread of the
\* private destination was returned
C31_Witness ==
    /\ txt.op = "placeFromShares"
    /\ Len(txt.file.shares.private.entries) = 2
    /\ txt.file.shares.private.entries[1].posts = <<>>
    /\ txt.file.shares.private.entries[2] = [cid |-> "C2", posts |-> <<Post("t2", "t1")>>]
    /\ txt.file.shares.public.present /\ 1 \in shared([txt.file EXCEPT !.shares.private = NoScope])
    /\ txt.file.shares.public.entries[1].cid = "C1"
    /\ txt.place = [channel |-> "C2", thread_ts |-> "t2"]

\* what a block shows between its fences
shown(b) == SubSeq(b, Len(Fence) + 2, Len(b) - Len(Fence) - 1)
\* the position in the body of the k-th character of block i, every block before
\* it being full
RECURSIVE shownBefore(_, _)
shownBefore(bs, i) == IF i = 1 THEN 0 ELSE shownBefore(bs, i - 1) + Len(shown(bs[i - 1]))

\* C32: the modal view splits a body that is not empty into blocks of at most
\* 2900 characters, none of them empty, which put one after the other in order
\* are the body, character by character; an empty body gives the one placeholder
\* block.
C32_BlocksAreTheBody ==
    txt.op = "modalView"
    => LET bs == txt.blocks
           t == txt.input
       IN  IF t = <<>> THEN bs = <<EmptyBlock>>
           ELSE /\ \A i \in 1..Len(bs) :
                    /\ bs[i] = fenced(shown(bs[i]))
                    /\ Len(shown(bs[i])) \in 1..BlockChars
                    /\ \A k \in 1..Len(shown(bs[i])) :
                         /\ shownBefore(bs, i) + k <= Len(t)
                         /\ shown(bs[i])[k] = t[shownBefore(bs, i) + k]
                /\ shownBefore(bs, Len(bs)) + Len(shown(bs[Len(bs)])) = Len(t)

\* C32 witness: a body of two full blocks and one character more was split into
\* three blocks
C32_Witness ==
    /\ txt.op = "modalView" /\ Len(txt.input) = 2 * BlockChars + 1
    /\ Len(txt.blocks) = 3 /\ Len(shown(txt.blocks[3])) = 1

====
